---- MODULE Spec2Model ----
(***************************************************************************)
(* A model of the coordconv converters (UTM, UPS, MGRS and the two map     *)
(* projections they use).                                                  *)
(*                                                                         *)
(* Numbers.  A float64 quantity is a pair <<w, f>> standing for            *)
(* w + f / 10^9 with f in 0 .. 10^9 - 1: angles are in degrees (the code   *)
(* works in radians; every threshold of the code is a number of degrees    *)
(* times Pi/180), lengths are in metres.  A threshold of the code that is  *)
(* not a multiple of 10^-9 is given by its floor, and the comparison       *)
(* against it is written so that it decides every value of the grid as the *)
(* code decides it.                                                        *)
(*                                                                         *)
(* Projections.  The series evaluated by TransverseMercator and            *)
(* PolarStereographic are tabulated: the tables hold, for the WGS84        *)
(* ellipsoid, the values the code computes at the arguments the model      *)
(* uses.  A call outside a table ends with kind "untabulated", never with  *)
(* a value.                                                                *)
(***************************************************************************)
EXTENDS Integers, Sequences, FiniteSets, TLC

(***************************************************************************)
(* Fixed point arithmetic                                                  *)
(***************************************************************************)
Nano == 10^9

Fx(w, f) == <<w, f>>

FxInt(i) == <<i, 0>>

FxLt(a, b) == a[1] < b[1] \/ (a[1] = b[1] /\ a[2] < b[2])

FxLe(a, b) == a[1] < b[1] \/ (a[1] = b[1] /\ a[2] <= b[2])

FxGt(a, b) == FxLt(b, a)

FxGe(a, b) == FxLe(b, a)

FxAdd(a, b) ==
    IF a[2] + b[2] >= Nano
    THEN <<a[1] + b[1] + 1, a[2] + b[2] - Nano>>
    ELSE <<a[1] + b[1], a[2] + b[2]>>

FxNeg(a) == IF a[2] = 0 THEN <<0 - a[1], 0>> ELSE <<0 - a[1] - 1, Nano - a[2]>>

FxSub(a, b) == FxAdd(a, FxNeg(b))

FxAbs(a) == IF a[1] < 0 THEN FxNeg(a) ELSE a

\* The float64 that is not a number: every comparison with it is false.
\* No number has the fraction Nano.
NaN == <<0, Nano>>

IsNaN(a) == a = NaN

\* Go's int(x) of a float64: truncation toward zero.
GoInt(a) == IF a[1] < 0 /\ a[2] > 0 THEN a[1] + 1 ELSE a[1]

\* Go's byte(i) of an int: the low 8 bits.
GoByte(i) == i % 256

(***************************************************************************)
(* Results of a call: a value, a returned error, or a run-time panic.      *)
(***************************************************************************)
Ok(v) == [kind |-> "ok", val |-> v]

Err(msg) == [kind |-> "error", val |-> msg]

Panic(msg) == [kind |-> "panic", val |-> msg]

\* Nothing returned yet.
None == [kind |-> "none", val |-> ""]

Untabulated == [kind |-> "untabulated", val |-> "argument outside the tables"]

IsOk(r) == r.kind = "ok"

\* "if err != nil { return ..., err }": F continues with the value of r.
Then(r, F(_)) == IF IsOk(r) THEN F(r.val) ELSE r

\* F continues with v.
With(v, F(_)) == F(v)

(***************************************************************************)
(* mgrs.go: constants                                                      *)
(***************************************************************************)
espilon2 == Fx(0, 499000)

mgrsMaxPrecision == 5

minMGRSNonPolarLat == FxInt(-80)

maxMGRSNonPolarLat == FxInt(84)

mgrsMinEasting == 100000

mgrsMaxEasting == 900000

mgrsMinNorthing == 0

mgrsMaxNorthing == 10000000

letterA == 0

letterB == 1

letterC == 2

letterD == 3

letterE == 4

letterF == 5

letterG == 6

letterH == 7

letterI == 8

letterJ == 9

letterK == 10

letterL == 11

letterM == 12

letterN == 13

letterO == 14

letterP == 15

letterQ == 16

letterR == 17

letterS == 18

letterT == 19

letterU == 20

letterV == 21

letterW == 22

letterX == 23

letterY == 24

letterZ == 25

\* The latitude bands C .. X: letter, minimum northing (m), northern and
\* southern edge (degrees), northing offset (m).  Indexed from 1 here, from
\* 0 in the code.
latitudeBands ==
    << [letter |-> letterC, minNorthing |-> 1100000, north |-> FxInt(-72), south |-> Fx(-81, 500000000), northingOffset |-> 0],
       [letter |-> letterD, minNorthing |-> 2000000, north |-> FxInt(-64), south |-> FxInt(-72), northingOffset |-> 2000000],
       [letter |-> letterE, minNorthing |-> 2800000, north |-> FxInt(-56), south |-> FxInt(-64), northingOffset |-> 2000000],
       [letter |-> letterF, minNorthing |-> 3700000, north |-> FxInt(-48), south |-> FxInt(-56), northingOffset |-> 2000000],
       [letter |-> letterG, minNorthing |-> 4600000, north |-> FxInt(-40), south |-> FxInt(-48), northingOffset |-> 4000000],
       [letter |-> letterH, minNorthing |-> 5500000, north |-> FxInt(-32), south |-> FxInt(-40), northingOffset |-> 4000000],
       [letter |-> letterJ, minNorthing |-> 6400000, north |-> FxInt(-24), south |-> FxInt(-32), northingOffset |-> 6000000],
       [letter |-> letterK, minNorthing |-> 7300000, north |-> FxInt(-16), south |-> FxInt(-24), northingOffset |-> 6000000],
       [letter |-> letterL, minNorthing |-> 8200000, north |-> FxInt(-8), south |-> FxInt(-16), northingOffset |-> 8000000],
       [letter |-> letterM, minNorthing |-> 9100000, north |-> FxInt(0), south |-> FxInt(-8), northingOffset |-> 8000000],
       [letter |-> letterN, minNorthing |-> 0, north |-> FxInt(8), south |-> FxInt(0), northingOffset |-> 0],
       [letter |-> letterP, minNorthing |-> 800000, north |-> FxInt(16), south |-> FxInt(8), northingOffset |-> 0],
       [letter |-> letterQ, minNorthing |-> 1700000, north |-> FxInt(24), south |-> FxInt(16), northingOffset |-> 0],
       [letter |-> letterR, minNorthing |-> 2600000, north |-> FxInt(32), south |-> FxInt(24), northingOffset |-> 2000000],
       [letter |-> letterS, minNorthing |-> 3500000, north |-> FxInt(40), south |-> FxInt(32), northingOffset |-> 2000000],
       [letter |-> letterT, minNorthing |-> 4400000, north |-> FxInt(48), south |-> FxInt(40), northingOffset |-> 4000000],
       [letter |-> letterU, minNorthing |-> 5300000, north |-> FxInt(56), south |-> FxInt(48), northingOffset |-> 4000000],
       [letter |-> letterV, minNorthing |-> 6200000, north |-> FxInt(64), south |-> FxInt(56), northingOffset |-> 6000000],
       [letter |-> letterW, minNorthing |-> 7000000, north |-> FxInt(72), south |-> FxInt(64), northingOffset |-> 6000000],
       [letter |-> letterX, minNorthing |-> 7900000, north |-> Fx(84, 500000000), south |-> FxInt(72), northingOffset |-> 6000000] >>

\* The UPS letter tables for A, B, Y, Z.  Indexed from 1 here.
upsConstants ==
    << [letter |-> letterA, ltr2LowValue |-> letterJ, ltr2HighValue |-> letterZ, ltr3HighValue |-> letterZ, falseEasting |-> 800000, falseNorthing |-> 800000],
       [letter |-> letterB, ltr2LowValue |-> letterA, ltr2HighValue |-> letterR, ltr3HighValue |-> letterZ, falseEasting |-> 2000000, falseNorthing |-> 800000],
       [letter |-> letterY, ltr2LowValue |-> letterJ, ltr2HighValue |-> letterZ, ltr3HighValue |-> letterP, falseEasting |-> 800000, falseNorthing |-> 1300000],
       [letter |-> letterZ, ltr2LowValue |-> letterA, ltr2HighValue |-> letterJ, ltr3HighValue |-> letterP, falseEasting |-> 2000000, falseNorthing |-> 1300000] >>

(***************************************************************************)
(* Strings are sequences of Unicode code points (what Go's range over a    *)
(* string yields); a byte buffer is a sequence of bytes.                   *)
(***************************************************************************)
isdigit(r) == r >= 48 /\ r <= 57

isalpha(r) == (r >= 97 /\ r <= 122) \/ (r >= 65 /\ r <= 90)

\* unicode.ToUpper on a byte that isalpha accepted.
toupper(b) == IF b >= 97 /\ b <= 122 THEN b - 32 ELSE b

\* bytes.Buffer.WriteRune: the UTF-8 encoding of a code point.
Utf8(r) ==
    IF r < 128 THEN <<r>>
    ELSE IF r < 2048 THEN <<192 + (r \div 64), 128 + (r % 64)>>
    ELSE IF r < 65536 THEN <<224 + (r \div 4096), 128 + ((r \div 64) % 64), 128 + (r % 64)>>
    ELSE <<240 + (r \div 262144), 128 + ((r \div 4096) % 64), 128 + ((r \div 64) % 64), 128 + (r % 64)>>

RECURSIVE Utf8String(_)
Utf8String(s) == IF s = <<>> THEN <<>> ELSE Utf8(Head(s)) \o Utf8String(Tail(s))

RECURSIVE DecimalDigits(_)
\* The decimal digits of v >= 0, most significant first.
DecimalDigits(v) ==
    IF v < 10 THEN <<48 + v>> ELSE Append(DecimalDigits(v \div 10), 48 + (v % 10))

RECURSIVE ZeroPad(_, _)
ZeroPad(s, width) == IF Len(s) >= width THEN s ELSE ZeroPad(<<48>> \o s, width)

\* fmt "%d": the digits of the value with no padding.
FormatIntUnpadded(v, n) == IF n = 0 /\ v = 0 THEN <<>> ELSE DecimalDigits(v)

\* fmt "%*.*d" with width = precision = n (and "%2.2d" for n = 2): at least
\* n digits, and no digit at all for the value 0 at precision 0.
FormatInt(v, n) == IF n = 0 /\ v = 0 THEN <<>> ELSE ZeroPad(DecimalDigits(v), n)

RECURSIVE ParseDigits(_, _)
ParseDigits(s, acc) ==
    IF s = <<>> \/ ~isdigit(Head(s)) THEN acc
    ELSE ParseDigits(Tail(s), 10 * acc + (Head(s) - 48))

\* fmt.Sscanf(s, "%d", &v) on a string that starts with a digit: the value
\* of the leading run of digits.
Sscanf(s) == ParseDigits(s, 0)

RECURSIVE CountWhile(_, _, _)
\* The number of leading elements of s, from index i (1-based), for which
\* the class test holds: digits when digit is TRUE, letters otherwise.
CountWhile(s, i, digit) ==
    IF i > Len(s) THEN 0
    ELSE IF (digit /\ isdigit(s[i])) \/ (~digit /\ isalpha(s[i]))
         THEN 1 + CountWhile(s, i + 1, digit)
         ELSE 0

Pow10(k) == 10^k

computeScale(prec) == IF prec >= 0 /\ prec <= 5 THEN Pow10(5 - prec) ELSE 100000

(***************************************************************************)
(* mgrs.go: makeMGRSString and breakMGRSString                             *)
(***************************************************************************)
\* easting and northing are whole metres here: both callers pass values
\* they have just truncated to a multiple of the precision's scale.
makeMGRSString(zone, letters, easting, northing, precision) ==
    IF \E j \in 1..3 : letters[j] >= 26
    THEN Err("invalid letters")
    ELSE LET divisor == computeScale(precision)
             zoneText == IF zone # 0 THEN FormatInt(zone, 2) ELSE <<>>
             letterText == [j \in 1..3 |-> 65 + letters[j]]
             e1 == easting % 100000
             e2 == IF FxGe(FxInt(e1), Fx(99999, 500000000)) THEN 99999 ELSE e1
             east == GoInt(FxAdd(FxInt(e2), Fx(0, 499000000))) \div divisor
             n1 == northing % 100000
             n2 == IF FxGe(FxInt(n1), Fx(99999, 500000000)) THEN 99999 ELSE n1
             north == GoInt(FxAdd(FxInt(n2), Fx(0, 499000000))) \div divisor
         IN  Ok(zoneText \o letterText \o FormatInt(east, precision) \o FormatInt(north, precision))

\* The loop of lines 516-523: a code point is tested by its low byte only.
HasInvalidCharacter(MGRSString) ==
    \E k \in 1..Len(MGRSString) :
        ~isdigit(GoByte(MGRSString[k])) /\ ~isalpha(GoByte(MGRSString[k]))

\* Lines 546-600, entered with the zone and the number i of bytes consumed.
breakLettersAndDigits(tempMGRSString, zone, i) ==
    LET numLetters == CountWhile(tempMGRSString, i + 1, FALSE)
        letters == [k \in 1..3 |-> toupper(tempMGRSString[i + k]) - 65]
        j == i + numLetters
        numDigits == CountWhile(tempMGRSString, j + 1, TRUE)
        n == numDigits \div 2
        east == Sscanf(SubSeq(tempMGRSString, j + 1, j + n))
        north == Sscanf(SubSeq(tempMGRSString, j + n + 1, j + 2 * n))
    IN  IF numLetters # 3 THEN Err("wrong number of letters")
        ELSE IF letters[1] = letterI \/ letters[1] = letterO THEN Err("invalid letter 0")
        ELSE IF letters[2] = letterI \/ letters[2] = letterO THEN Err("invalid letter 1")
        ELSE IF letters[3] = letterI \/ letters[3] = letterO THEN Err("invalid letter 2")
        ELSE IF ~(numDigits <= 10 /\ numDigits % 2 = 0) THEN Err("wrong number of digits")
        ELSE Ok([zone |-> zone, letters |-> letters,
                 easting |-> IF n > 0 THEN east * computeScale(n) ELSE 0,
                 northing |-> IF n > 0 THEN north * computeScale(n) ELSE 0,
                 precision |-> n])

breakMGRSString(MGRSString) ==
    IF HasInvalidCharacter(MGRSString) THEN Err("invalid character")
    ELSE LET tempMGRSString == Utf8String(MGRSString)
             numDigits == CountWhile(tempMGRSString, 1, TRUE)
             zone == Sscanf(SubSeq(tempMGRSString, 1, 2))
         IN  \* line 526 reads tempMGRSString[i] with no test of i against
             \* the length: a buffer of digits only (or empty) is overrun.
             IF numDigits = Len(tempMGRSString) THEN Panic("index out of range")
             ELSE IF numDigits > 2 THEN Err("too few digits")
             ELSE IF numDigits > 0 /\ (zone < 1 \/ zone > 60) THEN Err("zone out of range")
             ELSE breakLettersAndDigits(tempMGRSString, IF numDigits > 0 THEN zone ELSE 0, numDigits)

(***************************************************************************)
(* mgrs.go: letter tables                                                  *)
(***************************************************************************)
getGridValues(MGRSEllipsoidCode, zone) ==
    LET setNumber == IF zone % 6 = 0 THEN 6 ELSE zone % 6
        aaPattern == MGRSEllipsoidCode \notin {"CC", "CD", "BR", "BN"}
    IN  [ltr2LowValue |-> IF setNumber \in {1, 4} THEN letterA
                          ELSE IF setNumber \in {2, 5} THEN letterJ ELSE letterS,
         ltr2HighValue |-> IF setNumber \in {1, 4} THEN letterH
                           ELSE IF setNumber \in {2, 5} THEN letterR ELSE letterZ,
         patternOffset |-> IF aaPattern
                           THEN (IF setNumber % 2 = 0 THEN 500000 ELSE 0)
                           ELSE (IF setNumber % 2 = 0 THEN 1500000 ELSE 1000000)]

\* The index (from 1) of a band letter in latitudeBands, 0 for a letter that
\* names no band.
BandIndex(letter) ==
    IF letter >= letterC /\ letter <= letterH THEN letter - 2 + 1
    ELSE IF letter >= letterJ /\ letter <= letterN THEN letter - 3 + 1
    ELSE IF letter >= letterP /\ letter <= letterX THEN letter - 4 + 1
    ELSE 0

getLatitudeBandMinNorthing(letter) ==
    IF BandIndex(letter) = 0 THEN Err("invalid MGRS")
    ELSE Ok([minNorthing |-> latitudeBands[BandIndex(letter)].minNorthing,
             northingOffset |-> latitudeBands[BandIndex(letter)].northingOffset])

\* border is in degrees.
inLatitudeRange(letter, latitude, border) ==
    IF BandIndex(letter) = 0 THEN Err("invalid MGRS")
    ELSE Ok(/\ FxLe(FxSub(latitudeBands[BandIndex(letter)].south, border), latitude)
            /\ FxLe(latitude, FxAdd(latitudeBands[BandIndex(letter)].north, border)))

\* band := int((latitude + Lat80)/Lat8 + 1.0e-12): the 1.0e-12 is 8e-12
\* degree, below the grid, and the quotient is above -1.
getLatitudeLetter(latitude) ==
    IF FxGe(latitude, FxInt(72)) /\ FxLt(latitude, Fx(84, 500000000)) THEN Ok(letterX)
    ELSE IF FxGt(latitude, Fx(-81, 500000000)) /\ FxLt(latitude, FxInt(72))
    THEN LET shifted == FxAdd(latitude, FxInt(80))
             band == IF shifted[1] < 0 THEN 0 ELSE shifted[1] \div 8
         IN  Ok(latitudeBands[band + 1].letter)
    ELSE Err("latitude out of range")

(***************************************************************************)
(* transversemercator.go                                                   *)
(***************************************************************************)
\* ---- tabulated values: begin ----
TMForwardEntries ==
    {
      <<<<-177, 9, 34053997, -180, 28574918>>, <<173289, 227198054, 999948, 244102525>>>>,
      <<<<-177, 10, 0, 177, 0>>, <<-158713, 152302268, 1111418, 32883527>>>>,
      <<<<-177, 10, 0, 179, 999999999>>, <<171071, 263831576, 1106908, 854244141>>>>,
      <<<<-177, 10, 0, 180, 0>>, <<171071, 263941310, 1106908, 854243142>>>>,
      <<<<-171, 10, 0, 180, 0>>, <<-490219, 680438058, 1119000, 949961859>>>>,
      <<<<-87, 10, 0, -90, 0>>, <<171071, 263941310, 1106908, 854243142>>>>,
      <<<<-87, 33, 636700000, -85, 571940000>>, <<738550, 628026763, 3724842, 168950330>>>>,
      <<<<-69, -55, 198100000, -69, 697000000>>, <<544805, 97450888, -6072971, 884698996>>>>,
      <<<<-57, -80, 500000000, -60, 0>>, <<438993, 455565358, -8827350, 181101202>>>>,
      <<<<-57, -80, 500005000, -60, 0>>, <<438993, 426845252, -8827350, 738446250>>>>,
      <<<<-57, -80, 500100000, -60, 0>>, <<438992, 881163337, -8827339, 328002125>>>>,
      <<<<-45, -23, 93200000, -44, 827100000>>, <<687394, 593291124, -2534366, 127714328>>>>,
      <<<<-21, 64, 146600000, -22, 57399999>>, <<454138, 376516024, 7113689, 868973985>>>>,
      <<<<-21, 64, 146600000, -22, 57400000>>, <<454138, 376516024, 7113689, 868973985>>>>,
      <<<<-3, -45, 0, -1, 900000000>>, <<728564, 485881662, -4987043, 693384508>>>>,
      <<<<-3, 0, 0, -1, 407672797>>, <<767993, 116812931, 0, 0>>>>,
      <<<<-3, 0, 0, -1, 999996023>>, <<833978, 113838926, 0, 0>>>>,
      <<<<-3, 0, 0, 0, 0>>, <<833978, 556919462, 0, 0>>>>,
      <<<<-3, 60, 500000000, 3, 500000000>>, <<856674, 827030387, 6724734, 110617509>>>>,
      <<<<3, -80, 0, 0, 0>>, <<441867, 784867201, -8883085, 44051695>>>>,
      <<<<3, -60, 0, -177, 0>>, <<499999, 999999999, -13344519, 304320720>>>>,
      <<<<3, -60, 0, -176, 0>>, <<444223, 733248389, -13344098, 849391670>>>>,
      <<<<3, -60, 0, -108, 999999999>>, <<-2758678, 318922, -11243797, 754963891>>>>,
      <<<<3, -60, 0, -107, 1>>, <<-2758678, 269986, -11243797, 755080383>>>>,
      <<<<3, -60, 0, -87, 0>>, <<-3010545, 758484288, -9997965, 56979002>>>>,
      <<<<3, -60, 0, -68, 999999999>>, <<-2758678, 269985, -8752134, 358877621>>>>,
      <<<<3, -60, 0, -67, 1>>, <<-2758678, 318922, -8752134, 358994113>>>>,
      <<<<3, -60, 0, 3, 0>>, <<500000, 0, -6651412, 809637284>>>>,
      <<<<3, -60, 0, 38, 0>>, <<2385957, 358221416, -7174515, 590349391>>>>,
      <<<<3, -60, 0, 72, 999999999>>, <<3758677, 999681077, -8752134, 358994115>>>>,
      <<<<3, -60, 0, 73, 1>>, <<3758677, 999730012, -8752134, 358877621>>>>,
      <<<<3, -60, 0, 93, 0>>, <<4010544, 241515711, -9997965, 56979002>>>>,
      <<<<3, -60, 0, 112, 999999999>>, <<3758677, 999730012, -11243797, 755080383>>>>,
      <<<<3, -60, 0, 113, 1>>, <<3758677, 999681077, -11243797, 754963891>>>>,
      <<<<3, -60, 0, 153, 0>>, <<2132525, 464391377, -12961305, 124949837>>>>,
      <<<<3, -20, 0, -177, 0>>, <<499999, 999999998, -17784449, 421627972>>>>,
      <<<<3, -20, 0, -176, 0>>, <<395390, 676168248, -17784137, 670123372>>>>,
      <<<<3, -20, 0, -108, 999999999>>, <<-8359893, 47064185, -14777257, 83139037>>>>,
      <<<<3, -20, 0, -107, 1>>, <<-8359893, 46742424, -14777257, 83447815>>>>,
      <<<<3, -20, 0, -87, 0>>, <<-10501621, 194245863, -9997965, 56979002>>>>,
      <<<<3, -20, 0, -68, 999999999>>, <<-8359893, 46742422, -5218673, 30510189>>>>,
      <<<<3, -20, 0, -67, 1>>, <<-8359893, 47064185, -5218673, 30818967>>>>,
      <<<<3, -20, 0, 3, 0>>, <<500000, 0, -2211482, 692330035>>>>,
      <<<<3, -20, 0, 38, 0>>, <<4345527, 419877693, -2652699, 325822797>>>>,
      <<<<3, -20, 0, 72, 999999999>>, <<9359892, 952935814, -5218673, 30818969>>>>,
      <<<<3, -20, 0, 73, 1>>, <<9359892, 953257575, -5218673, 30510189>>>>,
      <<<<3, -20, 0, 93, 0>>, <<11501620, 805754136, -9997965, 56979002>>>>,
      <<<<3, -20, 0, 112, 999999999>>, <<9359892, 953257575, -14777257, 83447815>>>>,
      <<<<3, -20, 0, 113, 1>>, <<9359892, 952935814, -14777257, 83139037>>>>,
      <<<<3, -20, 0, 153, 0>>, <<3752818, 40510304, -17472841, 802030324>>>>,
      <<<<3, -20, 1, -177, 0>>, <<499999, 999999998, -17784449, 421517312>>>>,
      <<<<3, -20, 1, -176, 0>>, <<395390, 676167587, -17784137, 670012701>>>>,
      <<<<3, -20, 1, -108, 999999999>>, <<-8359893, 46900862, -14777257, 82968842>>>>,
      <<<<3, -20, 1, -67, 1>>, <<-8359893, 46900862, -5218673, 30989160>>>>,
      <<<<3, -20, 1, 3, 0>>, <<500000, 0, -2211482, 692440695>>>>,
      <<<<3, -20, 1, 38, 0>>, <<4345527, 419908395, -2652699, 325950682>>>>,
      <<<<3, -20, 1, 72, 999999999>>, <<9359892, 953099137, -5218673, 30989163>>>>,
      <<<<3, -20, 1, 113, 1>>, <<9359892, 953099137, -14777257, 82968842>>>>,
      <<<<3, -20, 1, 153, 0>>, <<3752818, 40534647, -17472841, 801907252>>>>,
      <<<<3, 0, 0, -177, 0>>, <<499999, 999999998, 19995929, 886041995>>>>,
      <<<<3, 0, 0, -176, 0>>, <<388719, 349108596, 19995929, 886041995>>>>,
      <<<<3, 0, 0, -108, 999999999>>, <<-10634055, 486817130, 19995929, 886041995>>>>,
      <<<<3, 0, 0, -67, 1>>, <<-10634055, 486817130, 0, 0>>>>,
      <<<<3, 0, 0, 0, 0>>, <<166021, 443080539, 0, 0>>>>,
      <<<<3, 0, 0, 3, 0>>, <<500000, 0, 0, 0>>>>,
      <<<<3, 0, 0, 38, 0>>, <<4664389, 626846203, 0, 0>>>>,
      <<<<3, 0, 0, 72, 999999999>>, <<11634054, 513182869, 0, 0>>>>,
      <<<<3, 0, 0, 113, 1>>, <<11634054, 513182869, 19995929, 886041995>>>>,
      <<<<3, 0, 0, 153, 0>>, <<4003410, 936146623, 19995929, 886041995>>>>,
      <<<<3, 10, 0, -177, 0>>, <<499999, 999999998, 18890517, 394740913>>>>,
      <<<<3, 10, 0, -176, 0>>, <<390399, 227485543, 18890351, 296849597>>>>,
      <<<<3, 10, 0, -108, 999999999>>, <<-9894040, 984699495, 16925942, 486349109>>>>,
      <<<<3, 10, 0, -67, 1>>, <<-9894040, 984699496, 3069987, 399692886>>>>,
      <<<<3, 10, 0, 0, 0>>, <<171071, 263941312, 1106908, 854243142>>>>,
      <<<<3, 10, 0, 3, 0>>, <<500000, 0, 1105412, 491301078>>>>,
      <<<<3, 10, 0, 5, 999999995>>, <<828928, 735509998, 1106908, 854238149>>>>,
      <<<<3, 10, 0, 6, 0>>, <<828928, 736058687, 1106908, 854243142>>>>,
      <<<<3, 10, 0, 38, 0>>, <<4582350, 708088543, 1344969, 662439186>>>>,
      <<<<3, 10, 0, 72, 999999999>>, <<10894039, 15300504, 3069987, 399692885>>>>,
      <<<<3, 10, 0, 113, 1>>, <<10894039, 15300504, 16925942, 486349109>>>>,
      <<<<3, 10, 0, 153, 0>>, <<3939373, 916831009, 18722397, 434952270>>>>,
      <<<<3, 19, 999999999, -177, 0>>, <<499999, 999999998, 17784448, 578482687>>>>,
      <<<<3, 19, 999999999, -176, 0>>, <<395390, 676167587, 17784136, 329987298>>>>,
      <<<<3, 19, 999999999, -108, 999999999>>, <<-8359893, 46900862, 14777256, 917031157>>>>,
      <<<<3, 19, 999999999, -67, 1>>, <<-8359893, 46900862, 5218672, 969010839>>>>,
      <<<<3, 19, 999999999, 3, 0>>, <<500000, 0, 2211481, 307559304>>>>,
      <<<<3, 19, 999999999, 38, 0>>, <<4345527, 419908395, 2652698, 674049317>>>>,
      <<<<3, 19, 999999999, 72, 999999999>>, <<9359892, 953099137, 5218672, 969010836>>>>,
      <<<<3, 19, 999999999, 113, 1>>, <<9359892, 953099137, 14777256, 917031157>>>>,
      <<<<3, 19, 999999999, 153, 0>>, <<3752818, 40534647, 17472840, 198092747>>>>,
      <<<<3, 20, 0, -177, 0>>, <<499999, 999999998, 17784448, 578372027>>>>,
      <<<<3, 20, 0, -176, 0>>, <<395390, 676168248, 17784136, 329876627>>>>,
      <<<<3, 20, 0, -108, 999999999>>, <<-8359893, 47064185, 14777256, 916860962>>>>,
      <<<<3, 20, 0, -107, 1>>, <<-8359893, 46742424, 14777256, 916552184>>>>,
      <<<<3, 20, 0, -87, 0>>, <<-10501621, 194245863, 9997964, 943020997>>>>,
      <<<<3, 20, 0, -68, 999999999>>, <<-8359893, 46742422, 5218672, 969489810>>>>,
      <<<<3, 20, 0, -67, 1>>, <<-8359893, 47064185, 5218672, 969181030>>>>,
      <<<<3, 20, 0, 3, 0>>, <<500000, 0, 2211481, 307669963>>>>,
      <<<<3, 20, 0, 38, 0>>, <<4345527, 419877693, 2652698, 674177201>>>>,
      <<<<3, 20, 0, 72, 999999999>>, <<9359892, 952935814, 5218672, 969181028>>>>,
      <<<<3, 20, 0, 73, 1>>, <<9359892, 953257575, 5218672, 969489808>>>>,
      <<<<3, 20, 0, 93, 0>>, <<11501620, 805754136, 9997964, 943020997>>>>,
      <<<<3, 20, 0, 112, 999999999>>, <<9359892, 953257575, 14777256, 916552184>>>>,
      <<<<3, 20, 0, 113, 1>>, <<9359892, 952935814, 14777256, 916860962>>>>,
      <<<<3, 20, 0, 153, 0>>, <<3752818, 40510304, 17472840, 197969675>>>>,
      <<<<3, 45, 0, -177, 0>>, <<499999, 999999999, 15012979, 485815443>>>>,
      <<<<3, 45, 0, -176, 0>>, <<421184, 697083287, 15012493, 117692697>>>>,
      <<<<3, 45, 0, -108, 999999999>>, <<-4612150, 381406047, 12100147, 949307896>>>>,
      <<<<3, 45, 0, -107, 1>>, <<-4612150, 381309790, 12100147, 949120394>>>>,
      <<<<3, 45, 0, -87, 0>>, <<-5124970, 293777006, 9997964, 943020997>>>>,
      <<<<3, 45, 0, -68, 999999999>>, <<-4612150, 381309789, 7895781, 936921599>>>>,
      <<<<3, 45, 0, -67, 1>>, <<-4612150, 381406047, 7895781, 936734098>>>>,
      <<<<3, 45, 0, 3, 0>>, <<500000, 0, 4982950, 400226550>>>>,
      <<<<3, 45, 0, 38, 0>>, <<3248234, 418058107, 5616013, 493153985>>>>,
      <<<<3, 45, 0, 72, 999999999>>, <<5612149, 618593952, 7895781, 936734098>>>>,
      <<<<3, 45, 0, 73, 1>>, <<5612149, 618690209, 7895781, 936921598>>>>,
      <<<<3, 45, 0, 93, 0>>, <<6124969, 706222994, 9997964, 943020997>>>>,
      <<<<3, 45, 0, 112, 999999999>>, <<5612149, 618690209, 12100147, 949120394>>>>,
      <<<<3, 45, 0, 113, 1>>, <<5612149, 618593952, 12100147, 949307896>>>>,
      <<<<3, 45, 0, 153, 0>>, <<2859847, 360033009, 14555105, 793862124>>>>,
      <<<<3, 48, 856600000, 2, 352200000>>, <<452482, 532702627, 5411717, 176868899>>>>,
      <<<<3, 55, 900000000, 3, 500000000>>, <<531264, 232439999, 6195062, 910773194>>>>,
      <<<<3, 56, 0, 2, 999999998>>, <<499999, 999875264, 6206079, 587252155>>>>,
      <<<<3, 56, 0, 3, 0>>, <<500000, 0, 6206079, 587252155>>>>,
      <<<<3, 60, 0, -1, 999999998>>, <<332705, 178819808, 6655205, 483637093>>>>,
      <<<<3, 60, 0, -1, 999999999>>, <<332705, 178819808, 6655205, 483637093>>>>,
      <<<<3, 60, 500000000, 2, 900000000>>, <<494506, 613573481, 6707101, 340484722>>>>,
      <<<<3, 60, 500000000, 3, 500000000>>, <<527466, 759890906, 6707201, 478035992>>>>,
      <<<<3, 63, 999000000, 5, 0>>, <<597815, 606250695, 7098437, 357905499>>>>,
      <<<<3, 64, 0, 5, 0>>, <<597812, 110083487, 7098548, 748858588>>>>,
      <<<<3, 72, 0, 0, 0>>, <<396566, 945624795, 7991508, 542710041>>>>,
      <<<<3, 72, 0, 8, 999999996>>, <<706636, 495752239, 7999233, 637215868>>>>,
      <<<<3, 72, 500000000, 6, 0>>, <<600652, 412789192, 8047218, 533903007>>>>,
      <<<<3, 73, 0, -1, 999999998>>, <<402135, 992986685, 8102930, 577898574>>>>,
      <<<<3, 73, 0, -1, 999999999>>, <<402135, 992986685, 8102930, 577898574>>>>,
      <<<<3, 76, 573510860, 7, 70661836>>, <<605432, 335470108, 8502825, 721283158>>>>,
      <<<<3, 78, 300000000, 8, 900000000>>, <<633347, 144822932, 8698579, 561855174>>>>,
      <<<<3, 78, 300000000, 9, 0>>, <<635599, 736745815, 8698809, 453694833>>>>,
      <<<<3, 83, 400000000, 5, 0>>, <<525659, 88908492, 9261557, 323387034>>>>,
      <<<<3, 89, 0, -177, 0>>, <<500000, 0, 10109614, 130389232>>>>,
      <<<<3, 89, 0, -176, 0>>, <<498051, 551868707, 10109597, 129129499>>>>,
      <<<<3, 89, 0, -108, 999999999>>, <<395080, 1990554, 10036154, 638255920>>>>,
      <<<<3, 89, 0, -107, 1>>, <<395080, 1989220, 10036154, 638252258>>>>,
      <<<<3, 89, 0, -87, 0>>, <<388345, 143830463, 9997964, 943020997>>>>,
      <<<<3, 89, 0, -68, 999999999>>, <<395080, 1989220, 9959775, 247789736>>>>,
      <<<<3, 89, 0, -67, 1>>, <<395080, 1990554, 9959775, 247786074>>>>,
      <<<<3, 89, 0, 3, 0>>, <<500000, 0, 9886315, 755652762>>>>,
      <<<<3, 89, 0, 38, 0>>, <<564038, 230874658, 9906504, 227775095>>>>,
      <<<<3, 89, 0, 72, 999999999>>, <<604919, 998009445, 9959775, 247786074>>>>,
      <<<<3, 89, 0, 73, 1>>, <<604919, 998010779, 9959775, 247789736>>>>,
      <<<<3, 89, 0, 93, 0>>, <<611654, 856169535, 9997964, 943020997>>>>,
      <<<<3, 89, 0, 112, 999999999>>, <<604919, 998010779, 10036154, 638252258>>>>,
      <<<<3, 89, 0, 113, 1>>, <<604919, 998009445, 10036154, 638255920>>>>,
      <<<<3, 89, 0, 153, 0>>, <<555823, 176483801, 10094658, 430035443>>>>,
      <<<<9, -1, 999999900, 10, 0>>, <<611280, 650891400, -1, 988945300>>>>,
      <<<<9, 0, 0, 0, 0>>, <<-505647, 100484267, 0, 0>>>>,
      <<<<9, 0, 0, 6, 592327202>>, <<232006, 883187071, 0, 0>>>>,
      <<<<9, 0, 0, 10, 0>>, <<611280, 650891400, 0, 0>>>>,
      <<<<9, 0, 100, 10, 0>>, <<611280, 650891400, 0, 11054698>>>>,
      <<<<9, 10, 0, 5, 999999995>>, <<171071, 263392623, 1106908, 854248135>>>>,
      <<<<9, 10, 0, 6, 0>>, <<171071, 263941312, 1106908, 854243142>>>>,
      <<<<9, 56, 0, 3, 0>>, <<126049, 970712682, 6222336, 335316707>>>>,
      <<<<9, 58, 628771048, 4, 722193246>>, <<251695, 681459856, 6506636, 693369162>>>>,
      <<<<9, 60, 0, 11, 999999000>>, <<667294, 765385010, 6655205, 481104743>>>>,
      <<<<9, 60, 500000000, 3, 500000000>>, <<198102, 993569468, 6719723, 57492919>>>>,
      <<<<9, 60, 500000000, 7, 0>>, <<390143, 728661696, 6708766, 199883387>>>>,
      <<<<9, 63, 999000000, 5, 0>>, <<304442, 212981761, 7103041, 530224798>>>>,
      <<<<9, 72, 0, 8, 999999996>>, <<499999, 999862038, 7988932, 503154107>>>>,
      <<<<9, 72, 500000000, 6, 0>>, <<399347, 587210807, 8047218, 533903007>>>>,
      <<<<9, 78, 300000000, 8, 900000000>>, <<497736, 208736344, 8691852, 36646556>>>>,
      <<<<9, 78, 300000000, 9, 0>>, <<500000, 0, 8691850, 102161440>>>>,
      <<<<15, 7, 999900000, 17, 500000000>>, <<775582, 671932305, 885123, 932895091>>>>,
      <<<<15, 9, 28523410, 12, 637154474>>, <<240240, 120373803, 998846, 529484196>>>>,
      <<<<15, 10, 0, 5, 999999995>>, <<-490219, 679883626, 1119000, 949977110>>>>,
      <<<<15, 10, 0, 6, 0>>, <<-490219, 680438059, 1119000, 949961859>>>>,
      <<<<15, 60, 0, 12, 0>>, <<332705, 178875548, 6655205, 483634563>>>>,
      <<<<15, 72, 0, 20, 0>>, <<672275, 51070391, 7996086, 925265260>>>>,
      <<<<15, 76, 580849517, 9, 0>>, <<344816, 942703544, 8507911, 539883252>>>>,
      <<<<15, 78, 300000000, 9, 0>>, <<364400, 263254184, 8698809, 453694833>>>>,
      <<<<15, 78, 300000000, 20, 999000000>>, <<635577, 212694844, 8698807, 135703355>>>>,
      <<<<15, 83, 497787274, 19, 22132045>>, <<550810, 314885233, 9273801, 556591935>>>>,
      <<<<21, -81, 999980000, 20, 0>>, <<480615, 235071607, -8881755, 353206515>>>>,
      <<<<21, -81, 999995000, 20, 0>>, <<480615, 206295922, -8881753, 27196047>>>>,
      <<<<21, 8, 0, 20, 0>>, <<389795, 397922159, 884431, 706491422>>>>,
      <<<<21, 71, 999900000, 20, 0>>, <<465510, 796316993, 7989207, 601799755>>>>,
      <<<<21, 72, 0, 20, 0>>, <<465510, 981461599, 7989218, 754586184>>>>,
      <<<<21, 78, 300000000, 20, 999000000>>, <<499977, 362076817, 8691850, 102354889>>>>,
      <<<<21, 78, 300000000, 21, 0>>, <<500000, 0, 8691850, 102161440>>>>,
      <<<<21, 83, 497787274, 19, 22132045>>, <<474999, 54574166, 9272457, 641890821>>>>,
      <<<<27, 76, 580849517, 21, 0>>, <<344816, 942703544, 8507911, 539883252>>>>,
      <<<<27, 78, 300000000, 21, 0>>, <<364400, 263254184, 8698809, 453694833>>>>,
      <<<<27, 84, 0, 30, 0>>, <<534994, 655061136, 9329005, 182447435>>>>,
      <<<<27, 84, 5000, 30, 0>>, <<534994, 626007161, 9329005, 739884000>>>>,
      <<<<27, 84, 20000, 30, 0>>, <<534994, 538845233, 9329007, 412193695>>>>,
      <<<<33, 78, 300000000, 33, 500000000>>, <<511318, 829744979, 8691898, 464067414>>>>,
      <<<<33, 84, 0, 30, 0>>, <<465005, 344938863, 9329005, 182447435>>>>,
      <<<<33, 84, 5000, 30, 0>>, <<465005, 373992838, 9329005, 739884000>>>>,
      <<<<39, 75, 0, 41, 900000000>>, <<583751, 310468802, 8325654, 604651539>>>>,
      <<<<39, 76, 573510860, 34, 929338163>>, <<394567, 664529891, 8502825, 721283158>>>>,
      <<<<39, 78, 300000000, 33, 500000000>>, <<375666, 891992380, 8697698, 534638734>>>>,
      <<<<45, 75, 0, 42, 0>>, <<413362, 961728047, 8325798, 247025638>>>>,
      <<<<51, -81, 499995000, 50, 0>>, <<481575, 135414491, -8937554, 572970781>>>>,
      <<<<51, -81, 600000000, 50, 0>>, <<481383, 23235150, -8926393, 348667977>>>>,
      <<<<51, 84, 400000000, 50, 0>>, <<489105, 829522348, 9372843, 557596439>>>>,
      <<<<51, 84, 500005000, 50, 0>>, <<489299, 762864040, 9384006, 321710985>>>>,
      <<<<75, 83, 499995000, 77, 0>>, <<525272, 46018644, 9272713, 603569351>>>>,
      <<<<99, 83, 999900000, 100, 0>>, <<511669, 714526872, 9328183, 949066419>>>>,
      <<<<105, 1, 352100000, 103, 819800000>>, <<368700, 272373037, 149479, 866291019>>>>,
      <<<<123, 83, 500000000, 120, 0>>, <<462101, 336665538, 9273261, 908855400>>>>,
      <<<<141, 35, 676200000, 139, 650300000>>, <<377855, 775951768, 3948874, 392162377>>>>,
      <<<<153, -34, 131200000, 151, 209300000>>, <<334368, 633648097, -3749052, 345385009>>>>,
      <<<<171, 10, 0, 177, 0>>, <<1158712, 847697733, 1111418, 32883527>>>>,
      <<<<177, -60, 0, -148, 0>>, <<2385957, 358221414, -7174515, 590349391>>>>,
      <<<<177, -60, 0, -114, 999999999>>, <<3758677, 999681079, -8752134, 358994111>>>>,
      <<<<177, -60, 0, -113, 1>>, <<3758677, 999730012, -8752134, 358877623>>>>,
      <<<<177, -60, 0, -93, 0>>, <<4010544, 241515711, -9997965, 56979002>>>>,
      <<<<177, -60, 0, -74, 999999999>>, <<3758677, 999730012, -11243797, 755080383>>>>,
      <<<<177, -60, 0, -73, 1>>, <<3758677, 999681079, -11243797, 754963895>>>>,
      <<<<177, -60, 0, -33, 0>>, <<2132525, 464391377, -12961305, 124949837>>>>,
      <<<<177, -60, 0, -3, 0>>, <<500000, 2, -13344519, 304320720>>>>,
      <<<<177, -60, 0, -2, 0>>, <<444223, 733248390, -13344098, 849391670>>>>,
      <<<<177, -60, 0, 66, 999999999>>, <<-2758678, 318922, -11243797, 754963891>>>>,
      <<<<177, -60, 0, 67, 1>>, <<-2758678, 269986, -11243797, 755080383>>>>,
      <<<<177, -60, 0, 87, 0>>, <<-3010545, 758484288, -9997965, 56979002>>>>,
      <<<<177, -60, 0, 106, 999999999>>, <<-2758678, 269985, -8752134, 358877621>>>>,
      <<<<177, -60, 0, 107, 1>>, <<-2758678, 318922, -8752134, 358994113>>>>,
      <<<<177, -60, 0, 177, 0>>, <<500000, 0, -6651412, 809637284>>>>,
      <<<<177, -20, 0, -148, 0>>, <<4345527, 419877687, -2652699, 325822799>>>>,
      <<<<177, -20, 0, -114, 999999999>>, <<9359892, 952935820, -5218673, 30818959>>>>,
      <<<<177, -20, 0, -113, 1>>, <<9359892, 953257575, -5218673, 30510191>>>>,
      <<<<177, -20, 0, -93, 0>>, <<11501620, 805754136, -9997965, 56979002>>>>,
      <<<<177, -20, 0, -74, 999999999>>, <<9359892, 953257575, -14777257, 83447815>>>>,
      <<<<177, -20, 0, -73, 1>>, <<9359892, 952935820, -14777257, 83139048>>>>,
      <<<<177, -20, 0, -33, 0>>, <<3752818, 40510304, -17472841, 802030324>>>>,
      <<<<177, -20, 0, -3, 0>>, <<500000, 3, -17784449, 421627972>>>>,
      <<<<177, -20, 0, -2, 0>>, <<395390, 676168251, -17784137, 670123372>>>>,
      <<<<177, -20, 0, 66, 999999999>>, <<-8359893, 47064185, -14777257, 83139037>>>>,
      <<<<177, -20, 0, 67, 1>>, <<-8359893, 46742424, -14777257, 83447815>>>>,
      <<<<177, -20, 0, 87, 0>>, <<-10501621, 194245863, -9997965, 56979000>>>>,
      <<<<177, -20, 0, 106, 999999999>>, <<-8359893, 46742422, -5218673, 30510189>>>>,
      <<<<177, -20, 0, 107, 1>>, <<-8359893, 47064185, -5218673, 30818967>>>>,
      <<<<177, -20, 0, 177, 0>>, <<500000, 0, -2211482, 692330035>>>>,
      <<<<177, -20, 1, -148, 0>>, <<4345527, 419908387, -2652699, 325950684>>>>,
      <<<<177, -20, 1, -114, 999999999>>, <<9359892, 953099148, -5218673, 30989153>>>>,
      <<<<177, -20, 1, -73, 1>>, <<9359892, 953099148, -14777257, 82968853>>>>,
      <<<<177, -20, 1, -33, 0>>, <<3752818, 40534647, -17472841, 801907252>>>>,
      <<<<177, -20, 1, -3, 0>>, <<500000, 3, -17784449, 421517312>>>>,
      <<<<177, -20, 1, -2, 0>>, <<395390, 676167590, -17784137, 670012701>>>>,
      <<<<177, -20, 1, 66, 999999999>>, <<-8359893, 46900862, -14777257, 82968842>>>>,
      <<<<177, -20, 1, 107, 1>>, <<-8359893, 46900862, -5218673, 30989160>>>>,
      <<<<177, -20, 1, 177, 0>>, <<500000, 0, -2211482, 692440695>>>>,
      <<<<177, 0, 0, -148, 0>>, <<4664389, 626846196, 0, 0>>>>,
      <<<<177, 0, 0, -114, 999999999>>, <<11634054, 513182887, 0, 0>>>>,
      <<<<177, 0, 0, -73, 1>>, <<11634054, 513182887, 19995929, 886041995>>>>,
      <<<<177, 0, 0, -33, 0>>, <<4003410, 936146623, 19995929, 886041995>>>>,
      <<<<177, 0, 0, -3, 0>>, <<500000, 4, 19995929, 886041995>>>>,
      <<<<177, 0, 0, -2, 0>>, <<388719, 349108599, 19995929, 886041995>>>>,
      <<<<177, 0, 0, 66, 999999999>>, <<-10634055, 486817130, 19995929, 886041995>>>>,
      <<<<177, 0, 0, 107, 1>>, <<-10634055, 486817130, 0, 0>>>>,
      <<<<177, 0, 0, 177, 0>>, <<500000, 0, 0, 0>>>>,
      <<<<177, 9, 34016449, 179, 966882048>>, <<826210, 868212531, 999940, 15837889>>>>,
      <<<<177, 10, 0, -148, 0>>, <<4582350, 708088537, 1344969, 662439186>>>>,
      <<<<177, 10, 0, -114, 999999999>>, <<10894039, 15300517, 3069987, 399692893>>>>,
      <<<<177, 10, 0, -73, 1>>, <<10894039, 15300517, 16925942, 486349102>>>>,
      <<<<177, 10, 0, -33, 0>>, <<3939373, 916831009, 18722397, 434952270>>>>,
      <<<<177, 10, 0, -3, 0>>, <<500000, 4, 18890517, 394740913>>>>,
      <<<<177, 10, 0, -2, 0>>, <<390399, 227485546, 18890351, 296849597>>>>,
      <<<<177, 10, 0, 66, 999999999>>, <<-9894040, 984699495, 16925942, 486349109>>>>,
      <<<<177, 10, 0, 107, 1>>, <<-9894040, 984699496, 3069987, 399692886>>>>,
      <<<<177, 10, 0, 177, 0>>, <<500000, 0, 1105412, 491301078>>>>,
      <<<<177, 10, 0, 180, 0>>, <<828928, 736058686, 1106908, 854243142>>>>,
      <<<<177, 19, 999999999, -148, 0>>, <<4345527, 419908387, 2652698, 674049315>>>>,
      <<<<177, 19, 999999999, -114, 999999999>>, <<9359892, 953099148, 5218672, 969010846>>>>,
      <<<<177, 19, 999999999, -73, 1>>, <<9359892, 953099148, 14777256, 917031146>>>>,
      <<<<177, 19, 999999999, -33, 0>>, <<3752818, 40534647, 17472840, 198092747>>>>,
      <<<<177, 19, 999999999, -3, 0>>, <<500000, 3, 17784448, 578482687>>>>,
      <<<<177, 19, 999999999, -2, 0>>, <<395390, 676167590, 17784136, 329987298>>>>,
      <<<<177, 19, 999999999, 66, 999999999>>, <<-8359893, 46900862, 14777256, 917031157>>>>,
      <<<<177, 19, 999999999, 107, 1>>, <<-8359893, 46900862, 5218672, 969010839>>>>,
      <<<<177, 19, 999999999, 177, 0>>, <<500000, 0, 2211481, 307559304>>>>,
      <<<<177, 20, 0, -148, 0>>, <<4345527, 419877687, 2652698, 674177200>>>>,
      <<<<177, 20, 0, -114, 999999999>>, <<9359892, 952935820, 5218672, 969181038>>>>,
      <<<<177, 20, 0, -113, 1>>, <<9359892, 953257575, 5218672, 969489806>>>>,
      <<<<177, 20, 0, -93, 0>>, <<11501620, 805754136, 9997964, 943020997>>>>,
      <<<<177, 20, 0, -74, 999999999>>, <<9359892, 953257575, 14777256, 916552186>>>>,
      <<<<177, 20, 0, -73, 1>>, <<9359892, 952935820, 14777256, 916860954>>>>,
      <<<<177, 20, 0, -33, 0>>, <<3752818, 40510304, 17472840, 197969675>>>>,
      <<<<177, 20, 0, -3, 0>>, <<500000, 3, 17784448, 578372027>>>>,
      <<<<177, 20, 0, -2, 0>>, <<395390, 676168251, 17784136, 329876627>>>>,
      <<<<177, 20, 0, 66, 999999999>>, <<-8359893, 47064185, 14777256, 916860962>>>>,
      <<<<177, 20, 0, 67, 1>>, <<-8359893, 46742424, 14777256, 916552184>>>>,
      <<<<177, 20, 0, 87, 0>>, <<-10501621, 194245863, 9997964, 943020999>>>>,
      <<<<177, 20, 0, 106, 999999999>>, <<-8359893, 46742422, 5218672, 969489810>>>>,
      <<<<177, 20, 0, 107, 1>>, <<-8359893, 47064185, 5218672, 969181030>>>>,
      <<<<177, 20, 0, 177, 0>>, <<500000, 0, 2211481, 307669963>>>>,
      <<<<177, 45, 0, -148, 0>>, <<3248234, 418058103, 5616013, 493153983>>>>,
      <<<<177, 45, 0, -114, 999999999>>, <<5612149, 618593955, 7895781, 936734103>>>>,
      <<<<177, 45, 0, -113, 1>>, <<5612149, 618690209, 7895781, 936921596>>>>,
      <<<<177, 45, 0, -93, 0>>, <<6124969, 706222994, 9997964, 943020997>>>>,
      <<<<177, 45, 0, -74, 999999999>>, <<5612149, 618690209, 12100147, 949120396>>>>,
      <<<<177, 45, 0, -73, 1>>, <<5612149, 618593955, 12100147, 949307888>>>>,
      <<<<177, 45, 0, -33, 0>>, <<2859847, 360033009, 14555105, 793862124>>>>,
      <<<<177, 45, 0, -3, 0>>, <<500000, 2, 15012979, 485815443>>>>,
      <<<<177, 45, 0, -2, 0>>, <<421184, 697083289, 15012493, 117692697>>>>,
      <<<<177, 45, 0, 66, 999999999>>, <<-4612150, 381406047, 12100147, 949307896>>>>,
      <<<<177, 45, 0, 67, 1>>, <<-4612150, 381309790, 12100147, 949120394>>>>,
      <<<<177, 45, 0, 87, 0>>, <<-5124970, 293777006, 9997964, 943020997>>>>,
      <<<<177, 45, 0, 106, 999999999>>, <<-4612150, 381309789, 7895781, 936921599>>>>,
      <<<<177, 45, 0, 107, 1>>, <<-4612150, 381406047, 7895781, 936734098>>>>,
      <<<<177, 45, 0, 177, 0>>, <<500000, 0, 4982950, 400226550>>>>,
      <<<<177, 89, 0, -148, 0>>, <<564038, 230874658, 9906504, 227775095>>>>,
      <<<<177, 89, 0, -114, 999999999>>, <<604919, 998009445, 9959775, 247786074>>>>,
      <<<<177, 89, 0, -113, 1>>, <<604919, 998010779, 9959775, 247789736>>>>,
      <<<<177, 89, 0, -93, 0>>, <<611654, 856169535, 9997964, 943020997>>>>,
      <<<<177, 89, 0, -74, 999999999>>, <<604919, 998010779, 10036154, 638252258>>>>,
      <<<<177, 89, 0, -73, 1>>, <<604919, 998009445, 10036154, 638255918>>>>,
      <<<<177, 89, 0, -33, 0>>, <<555823, 176483801, 10094658, 430035443>>>>,
      <<<<177, 89, 0, -3, 0>>, <<500000, 0, 10109614, 130389232>>>>,
      <<<<177, 89, 0, -2, 0>>, <<498051, 551868707, 10109597, 129129499>>>>,
      <<<<177, 89, 0, 66, 999999999>>, <<395080, 1990554, 10036154, 638255920>>>>,
      <<<<177, 89, 0, 67, 1>>, <<395080, 1989220, 10036154, 638252258>>>>,
      <<<<177, 89, 0, 87, 0>>, <<388345, 143830463, 9997964, 943020997>>>>,
      <<<<177, 89, 0, 106, 999999999>>, <<395080, 1989220, 9959775, 247789736>>>>,
      <<<<177, 89, 0, 107, 1>>, <<395080, 1990554, 9959775, 247786074>>>>,
      <<<<177, 89, 0, 177, 0>>, <<500000, 0, 9886315, 755652762>>>>
    }

TMInverseEntries ==
    {
      <<<<-177, 100000, 0, 0, 0>>, <<0, 0, 179, 407672797>>>>,
      <<<<-177, 100000, 0, 1100000, 0>>, <<9, 931170001, 179, 353314041>>>>,
      <<<<-177, 100000, 0, 1200000, 0>>, <<10, 833758090, 179, 342827221>>>>,
      <<<<-177, 166500, 0, 1000000, 0>>, <<9, 34016449, 179, 966882048>>>>,
      <<<<-177, 170000, 0, 1100000, 0>>, <<9, 937510763, 179, 990811703>>>>,
      <<<<-177, 171000, 0, 1106000, 0>>, <<9, 991785281, 179, 999426001>>>>,
      <<<<-177, 171000, 0, 1106900, 0>>, <<9, 999914169, 179, 999351386>>>>,
      <<<<-177, 171070, 0, 1106900, 0>>, <<9, 999919923, 179, 999989217>>>>,
      <<<<-177, 171071, 0, 1106908, 0>>, <<9, 999992262, 179, 999997665>>>>,
      <<<<-177, 171071, 263831576, 1106908, 854244141>>, <<10, 0, 179, 999999999>>>>,
      <<<<-177, 171071, 263941310, 1106908, 854243142>>, <<10, 0, 179, 999999999>>>>,
      <<<<-165, 800000, 0, 0, 0>>, <<0, 0, -163, 695023222>>>>,
      <<<<-165, 800000, 0, 1200000, 0>>, <<10, 843253001, -163, 743728776>>>>,
      <<<<-117, 500000, 0, 0, 0>>, <<0, 0, -117, 0>>>>,
      <<<<-117, 500000, 0, 1200000, 0>>, <<10, 855481221, -117, 0>>>>,
      <<<<-105, 100000, 0, 0, 0>>, <<0, 0, -109, 407672797>>>>,
      <<<<-105, 100000, 0, 1200000, 0>>, <<10, 833758090, -109, 342827221>>>>,
      <<<<-87, 100000, 0, 1100000, 0>>, <<9, 931170001, -91, 353314041>>>>,
      <<<<-87, 170000, 0, 1100000, 0>>, <<9, 937510763, -91, 990811703>>>>,
      <<<<-87, 171000, 0, 1106000, 0>>, <<9, 991785281, -91, 999426001>>>>,
      <<<<-87, 171000, 0, 1106900, 0>>, <<9, 999914169, -91, 999351386>>>>,
      <<<<-87, 171070, 0, 1106900, 0>>, <<9, 999919923, -91, 999989217>>>>,
      <<<<-87, 171071, 0, 1106908, 0>>, <<9, 999992262, -91, 999997665>>>>,
      <<<<-87, 171071, 263941310, 1106908, 854243142>>, <<10, 0, -90, 0>>>>,
      <<<<-87, 700000, 0, 3700000, 0>>, <<33, 420738490, -85, 151032686>>>>,
      <<<<-87, 730000, 0, 3720000, 0>>, <<33, 594949902, -85, 478577857>>>>,
      <<<<-87, 730000, 0, 3780000, 0>>, <<34, 135585874, -85, 494259960>>>>,
      <<<<-87, 738000, 0, 3724000, 0>>, <<33, 629235038, -85, 565783430>>>>,
      <<<<-87, 738000, 0, 3755000, 0>>, <<33, 908549954, -85, 574127478>>>>,
      <<<<-87, 738500, 0, 3724800, 0>>, <<33, 636331392, -85, 571383332>>>>,
      <<<<-87, 738500, 0, 3750200, 0>>, <<33, 865189220, -85, 578228275>>>>,
      <<<<-87, 738550, 0, 3702480, 0>>, <<33, 435205696, -85, 565969246>>>>,
      <<<<-87, 738550, 0, 3724840, 0>>, <<33, 636680597, -85, 571932653>>>>,
      <<<<-87, 738550, 0, 3724842, 0>>, <<33, 636698618, -85, 571933189>>>>,
      <<<<-87, 738550, 628026763, 3724842, 168950330>>, <<33, 636700000, -85, 571940000>>>>,
      <<<<-87, 738551, 0, 3724838, 0>>, <<33, 636662352, -85, 571942889>>>>,
      <<<<-69, 500000, 0, -6100000, 0>>, <<-56, 953193695, -70, 999999999>>>>,
      <<<<-69, 540000, 0, -6080000, 0>>, <<-55, 134522251, -69, 623228237>>>>,
      <<<<-69, 544000, 0, -6073000, 0>>, <<-55, 197760178, -69, 684481231>>>>,
      <<<<-69, 544800, 0, -6073000, 0>>, <<-55, 197830999, -69, 696925329>>>>,
      <<<<-69, 544800, 0, -6072980, 0>>, <<-55, 198010720, -69, 696922237>>>>,
      <<<<-69, 544805, 0, -6072971, 0>>, <<-55, 198092041, -69, 696998620>>>>,
      <<<<-69, 544805, 97450888, -6072971, 884698996>>, <<-55, 198099999, -69, 697000000>>>>,
      <<<<-57, 400000, 0, -8900000, 0>>, <<-81, 875333764, -63, 770284121>>>>,
      <<<<-57, 430000, 0, -8830000, 0>>, <<-80, 480749455, -61, 551022087>>>>,
      <<<<-57, 438000, 0, -8828000, 0>>, <<-80, 494644632, -61, 949564520>>>>,
      <<<<-57, 438900, 0, -8827400, 0>>, <<-80, 499594135, -61, 995285463>>>>,
      <<<<-57, 438990, 0, -8827350, 0>>, <<-80, 499999972, -61, 999829919>>>>,
      <<<<-57, 438990, 0, -8827340, 0>>, <<-80, 500089446, -61, 999855215>>>>,
      <<<<-57, 438992, 0, -8827339, 0>>, <<-80, 500097471, -61, 999955917>>>>,
      <<<<-57, 438992, 881163337, -8827339, 328002125>>, <<-80, 500100000, -60, 0>>>>,
      <<<<-57, 438993, 0, -8827350, 0>>, <<-80, 499998589, -61, 999977179>>>>,
      <<<<-57, 438993, 426845252, -8827350, 738446250>>, <<-80, 500004999, -60, 0>>>>,
      <<<<-57, 438993, 455565358, -8827350, 181101202>>, <<-80, 499999999, -60, 0>>>>,
      <<<<-45, 600000, 0, -2600000, 0>>, <<-24, 492884978, -45, 979450059>>>>,
      <<<<-45, 680000, 0, -2540000, 0>>, <<-23, 41515314, -44, 755685097>>>>,
      <<<<-45, 687000, 0, -2535000, 0>>, <<-23, 87430299, -44, 823330801>>>>,
      <<<<-45, 687300, 0, -2534400, 0>>, <<-23, 92881260, -44, 826182203>>>>,
      <<<<-45, 687390, 0, -2534370, 0>>, <<-23, 93162216, -44, 827055732>>>>,
      <<<<-45, 687394, 0, -2534366, 0>>, <<-23, 93198780, -44, 827094233>>>>,
      <<<<-45, 687394, 593291124, -2534366, 127714328>>, <<-23, 93200000, -44, 827100000>>>>,
      <<<<-21, 400000, 0, 7100000, 0>>, <<64, 12392498, -24, 954345418>>>>,
      <<<<-21, 450000, 0, 7110000, 0>>, <<64, 112918365, -23, 973581543>>>>,
      <<<<-21, 454000, 0, 7113000, 0>>, <<64, 140391655, -22, 54766879>>>>,
      <<<<-21, 454100, 0, 7113600, 0>>, <<64, 145788539, -22, 56638737>>>>,
      <<<<-21, 454130, 0, 7113680, 0>>, <<64, 146510336, -22, 57230867>>>>,
      <<<<-21, 454138, 0, 7113689, 0>>, <<64, 146592153, -22, 57392527>>>>,
      <<<<-21, 454138, 376516024, 7113689, 868973985>>, <<64, 146599999, -22, 57399999>>>>,
      <<<<-3, 700000, 0, -5000000, 0>>, <<-46, 874846152, -1, 543123489>>>>,
      <<<<-3, 720000, 0, -4990000, 0>>, <<-46, 970700183, -1, 792759727>>>>,
      <<<<-3, 728000, 0, -4988000, 0>>, <<-46, 991208363, -1, 893280748>>>>,
      <<<<-3, 728500, 0, -4987100, 0>>, <<-46, 999460550, -1, 899209039>>>>,
      <<<<-3, 728560, 0, -4987050, 0>>, <<-46, 999929388, -1, 899946648>>>>,
      <<<<-3, 728564, 0, -4987043, 0>>, <<-46, 999993609, -1, 899994157>>>>,
      <<<<-3, 728564, 485881662, -4987043, 693384508>>, <<-45, 0, -1, 900000000>>>>,
      <<<<3, 100000, 0, 0, 0>>, <<0, 0, -1, 407672797>>>>,
      <<<<3, 100000, 0, 1100000, 0>>, <<9, 931170001, -1, 353314041>>>>,
      <<<<3, 100000, 0, 1200000, 0>>, <<10, 833758090, -1, 342827221>>>>,
      <<<<3, 160000, 0, 0, 0>>, <<0, 0, -1, 945962824>>>>,
      <<<<3, 160000, 0, 60000, 0>>, <<0, 542062459, -1, 945826925>>>>,
      <<<<3, 166000, 0, 0, 0>>, <<0, 0, -1, 999807562>>>>,
      <<<<3, 166000, 0, 2000, 0>>, <<0, 18069658, -1, 999807413>>>>,
      <<<<3, 166000, 0, 21000, 0>>, <<0, 189731410, -1, 999791207>>>>,
      <<<<3, 166020, 0, 0, 0>>, <<0, 0, -1, 999987049>>>>,
      <<<<3, 166020, 0, 10000, 0>>, <<0, 90348308, -1, 999983340>>>>,
      <<<<3, 166021, 0, 0, 0>>, <<0, 0, -1, 999996023>>>>,
      <<<<3, 166021, 443080539, 0, 0>>, <<0, 0, 0, 0>>>>,
      <<<<3, 170000, 0, 1100000, 0>>, <<9, 937510763, -1, 990811703>>>>,
      <<<<3, 171000, 0, 1106000, 0>>, <<9, 991785281, -1, 999426001>>>>,
      <<<<3, 171000, 0, 1106900, 0>>, <<9, 999914169, -1, 999351386>>>>,
      <<<<3, 171070, 0, 1106900, 0>>, <<9, 999919923, -1, 999989217>>>>,
      <<<<3, 171071, 0, 1106908, 0>>, <<9, 999992262, -1, 999997665>>>>,
      <<<<3, 171071, 263941312, 1106908, 854243142>>, <<10, 0, 0, 0>>>>,
      <<<<3, 300000, 0, 6600000, 0>>, <<59, 490625599, -1, 467397959>>>>,
      <<<<3, 300000, 0, 7900000, 0>>, <<71, 120485201, -3, 455235346>>>>,
      <<<<3, 330000, 0, 6650000, 0>>, <<59, 952214676, -1, 955859967>>>>,
      <<<<3, 332000, 0, 6655000, 0>>, <<59, 997869863, -1, 987542453>>>>,
      <<<<3, 332700, 0, 6655200, 0>>, <<59, 999948720, -1, 999911734>>>>,
      <<<<3, 332705, 0, 6655205, 0>>, <<59, 999995590, -1, 999997190>>>>,
      <<<<3, 332705, 178819808, 6655205, 483637093>>, <<60, 0, -1, 999999998>>>>,
      <<<<3, 390000, 0, 7990000, 0>>, <<71, 983473265, -1, 812206736>>>>,
      <<<<3, 396000, 0, 7991000, 0>>, <<71, 995193408, -1, 984322708>>>>,
      <<<<3, 396500, 0, 7991500, 0>>, <<71, 999893633, -1, 998074008>>>>,
      <<<<3, 396560, 0, 7991500, 0>>, <<71, 999920417, -1, 999811226>>>>,
      <<<<3, 396566, 0, 7991508, 0>>, <<71, 999994719, -1, 999973403>>>>,
      <<<<3, 396566, 945624795, 7991508, 542710041>>, <<72, 0, -1, 999999999>>>>,
      <<<<3, 400000, 0, -8900000, 0>>, <<-81, 875333764, -3, 770284121>>>>,
      <<<<3, 400000, 0, 5400000, 0>>, <<48, 744984111, 1, 639720753>>>>,
      <<<<3, 400000, 0, 6500000, 0>>, <<58, 628771048, 1, 277806753>>>>,
      <<<<3, 400000, 0, 6700000, 0>>, <<60, 423898795, 1, 183728785>>>>,
      <<<<3, 400000, 0, 8100000, 0>>, <<72, 972797991, -1, 939224763>>>>,
      <<<<3, 402000, 0, 8102000, 0>>, <<72, 991608366, -1, 997266924>>>>,
      <<<<3, 402100, 0, 8102900, 0>>, <<72, 999710113, -1, 998945485>>>>,
      <<<<3, 402130, 0, 8102930, 0>>, <<72, 999992137, -1, 999817492>>>>,
      <<<<3, 402135, 0, 8102930, 0>>, <<72, 999994381, -1, 999970498>>>>,
      <<<<3, 402135, 992986685, 8102930, 577898574>>, <<72, 999999999, -1, 999999998>>>>,
      <<<<3, 440000, 0, -8890000, 0>>, <<-81, 939013135, -1, 884700970>>>>,
      <<<<3, 441000, 0, -8884000, 0>>, <<-81, 992217088, -1, 952828071>>>>,
      <<<<3, 441800, 0, -8883100, 0>>, <<-81, 999896719, -1, 996468120>>>>,
      <<<<3, 441860, 0, -8883090, 0>>, <<-81, 999958465, -1, 999585560>>>>,
      <<<<3, 441867, 0, -8883085, 0>>, <<-81, 999999968, -1, 999959451>>>>,
      <<<<3, 441867, 784867201, -8883085, 44051695>>, <<-80, 0, 0, 0>>>>,
      <<<<3, 450000, 0, 5410000, 0>>, <<48, 840958513, 2, 318568005>>>>,
      <<<<3, 452000, 0, 5411000, 0>>, <<48, 850111662, 2, 345706209>>>>,
      <<<<3, 452400, 0, 5411700, 0>>, <<48, 856439162, 2, 351076914>>>>,
      <<<<3, 452480, 0, 5411710, 0>>, <<48, 856535248, 2, 352166307>>>>,
      <<<<3, 452482, 0, 5411717, 0>>, <<48, 856598368, 2, 352192758>>>>,
      <<<<3, 452482, 532702627, 5411717, 176868899>>, <<48, 856599999, 2, 352200000>>>>,
      <<<<3, 490000, 0, 6700000, 0>>, <<60, 436153375, 2, 818319950>>>>,
      <<<<3, 494000, 0, 6707000, 0>>, <<60, 499082879, 2, 890780834>>>>,
      <<<<3, 494500, 0, 6707100, 0>>, <<60, 499987874, 2, 899879645>>>>,
      <<<<3, 494506, 0, 6707101, 0>>, <<60, 499996934, 2, 899988840>>>>,
      <<<<3, 494506, 613573481, 6707101, 340484722>>, <<60, 499999999, 2, 899999999>>>>,
      <<<<3, 499999, 999875264, 6206079, 587252155>>, <<55, 999999999, 2, 999999997>>>>,
      <<<<3, 500000, 0, -10000000, 0>>, <<-90, 18227225, -177, 0>>>>,
      <<<<3, 500000, 0, -8900000, 0>>, <<-81, 835021751, 2, 999999999>>>>,
      <<<<3, 500000, 0, -8880000, 0>>, <<-80, 14207881, 2, 999999999>>>>,
      <<<<3, 500000, 0, -8200000, 0>>, <<-74, 107903954, 2, 999999999>>>>,
      <<<<3, 500000, 0, -6900000, 0>>, <<-63, 768229935, 2, 999999999>>>>,
      <<<<3, 500000, 0, 0, 0>>, <<0, 0, 2, 999999999>>>>,
      <<<<3, 500000, 0, 40000, 0>>, <<0, 361892499, 2, 999999999>>>>,
      <<<<3, 500000, 0, 800000, 0>>, <<7, 237465617, 2, 999999999>>>>,
      <<<<3, 500000, 0, 900000, 0>>, <<8, 142034146, 2, 999999999>>>>,
      <<<<3, 500000, 0, 940000, 0>>, <<8, 503850541, 2, 999999999>>>>,
      <<<<3, 500000, 0, 1940000, 0>>, <<17, 546380436, 2, 999999999>>>>,
      <<<<3, 500000, 0, 2940000, 0>>, <<26, 580742546, 2, 999999999>>>>,
      <<<<3, 500000, 0, 6100000, 0>>, <<55, 46806304, 2, 999999999>>>>,
      <<<<3, 500000, 0, 7000000, 0>>, <<63, 129339711, 2, 999999999>>>>,
      <<<<3, 500000, 0, 8500000, 0>>, <<76, 580849517, 2, 999999999>>>>,
      <<<<3, 500000, 0, 9200000, 0>>, <<82, 852560273, 2, 999999999>>>>,
      <<<<3, 500000, 0, 9329000, 0>>, <<84, 8117107, 2, 999999999>>>>,
      <<<<3, 500000, 0, 9350000, 0>>, <<84, 196226136, 2, 999999999>>>>,
      <<<<3, 500000, 0, 10000000, 0>>, <<89, 981772774, -177, 0>>>>,
      <<<<3, 520000, 0, 9260000, 0>>, <<83, 387618764, 4, 555874575>>>>,
      <<<<3, 525000, 0, 9261000, 0>>, <<83, 395212541, 4, 947201104>>>>,
      <<<<3, 525600, 0, 9261500, 0>>, <<83, 399505148, 4, 995243510>>>>,
      <<<<3, 525650, 0, 9261550, 0>>, <<83, 399937260, 4, 999272357>>>>,
      <<<<3, 525659, 0, 9261557, 0>>, <<83, 399997132, 4, 999992201>>>>,
      <<<<3, 525659, 88908492, 9261557, 323387034>>, <<83, 399999999, 4, 999999999>>>>,
      <<<<3, 530000, 0, 6190000, 0>>, <<55, 854591133, 3, 479221673>>>>,
      <<<<3, 531000, 0, 6195000, 0>>, <<55, 899451845, 3, 495767175>>>>,
      <<<<3, 531200, 0, 6195000, 0>>, <<55, 899438928, 3, 498965537>>>>,
      <<<<3, 531260, 0, 6195060, 0>>, <<55, 899974122, 3, 499931978>>>>,
      <<<<3, 531264, 0, 6195062, 0>>, <<55, 899991832, 3, 499996177>>>>,
      <<<<3, 531264, 232439999, 6195062, 910773194>>, <<55, 900000000, 3, 499999999>>>>,
      <<<<3, 590000, 0, 7090000, 0>>, <<63, 925433767, 4, 835336600>>>>,
      <<<<3, 597000, 0, 7098000, 0>>, <<63, 995306119, 4, 983057599>>>>,
      <<<<3, 597800, 0, 7098500, 0>>, <<63, 999566201, 4, 999721304>>>>,
      <<<<3, 597810, 0, 7098540, 0>>, <<63, 999922129, 4, 999951275>>>>,
      <<<<3, 597812, 0, 7098548, 0>>, <<63, 999993314, 4, 999997270>>>>,
      <<<<3, 597812, 110083487, 7098548, 748858588>>, <<63, 999999999, 4, 999999999>>>>,
      <<<<3, 599999, 0, 899999, 0>>, <<8, 141010380, 3, 907716585>>>>,
      <<<<3, 600000, 0, 6500000, 0>>, <<58, 628771048, 4, 722193246>>>>,
      <<<<3, 600000, 0, 8000000, 0>>, <<72, 77536527, 5, 912492321>>>>,
      <<<<3, 600000, 0, 8040000, 0>>, <<72, 435665264, 5, 969962137>>>>,
      <<<<3, 600000, 0, 8047000, 0>>, <<72, 498334525, 5, 980265212>>>>,
      <<<<3, 600000, 0, 8600000, 0>>, <<77, 445472021, 7, 124354148>>>>,
      <<<<3, 600600, 0, 8047200, 0>>, <<72, 499857521, 5, 998412983>>>>,
      <<<<3, 600650, 0, 8047210, 0>>, <<72, 499924679, 5, 999915520>>>>,
      <<<<3, 600652, 0, 8047218, 0>>, <<72, 499995404, 5, 999986924>>>>,
      <<<<3, 600652, 412789192, 8047218, 533903007>>, <<72, 500000000, 5, 999999999>>>>,
      <<<<3, 630000, 0, 8690000, 0>>, <<78, 226490089, 8, 715923297>>>>,
      <<<<3, 633000, 0, 8698000, 0>>, <<78, 295146976, 8, 882176920>>>>,
      <<<<3, 633300, 0, 8698500, 0>>, <<78, 299333385, 8, 897574846>>>>,
      <<<<3, 633340, 0, 8698570, 0>>, <<78, 299921220, 8, 899643545>>>>,
      <<<<3, 633347, 0, 8698579, 0>>, <<78, 299995122, 8, 899991138>>>>,
      <<<<3, 633347, 144822932, 8698579, 561855174>>, <<78, 300000000, 8, 899999999>>>>,
      <<<<3, 700000, 0, 7900000, 0>>, <<71, 120485201, 8, 544764653>>>>,
      <<<<3, 700000, 0, 7990000, 0>>, <<71, 923461812, 8, 782917686>>>>,
      <<<<3, 700000, 0, 9300000, 0>>, <<83, 497787274, 19, 22132045>>>>,
      <<<<3, 706000, 0, 7999000, 0>>, <<71, 998483203, 8, 980974931>>>>,
      <<<<3, 706600, 0, 7999200, 0>>, <<71, 999732609, 8, 998850714>>>>,
      <<<<3, 706630, 0, 7999230, 0>>, <<71, 999973359, 8, 999802209>>>>,
      <<<<3, 706636, 0, 7999233, 0>>, <<71, 999994760, 8, 999983864>>>>,
      <<<<3, 706636, 495752239, 7999233, 637215868>>, <<72, 0, 8, 999999996>>>>,
      <<<<3, 800000, 0, 1100000, 0>>, <<9, 939857690, 5, 735851912>>>>,
      <<<<3, 820000, 0, 1100000, 0>>, <<9, 938317803, 5, 918083740>>>>,
      <<<<3, 828000, 0, 1106000, 0>>, <<9, 991867304, 5, 991462315>>>>,
      <<<<3, 828900, 0, 1106900, 0>>, <<9, 999922389, 5, 999737426>>>>,
      <<<<3, 828920, 0, 1106900, 0>>, <<9, 999920745, 5, 999919663>>>>,
      <<<<3, 828928, 0, 1106908, 0>>, <<9, 999992344, 5, 999993222>>>>,
      <<<<3, 833978, 0, 0, 0>>, <<0, 0, 5, 999995002>>>>,
      <<<<3, 900000, 0, 0, 0>>, <<0, 0, 6, 592327202>>>>,
      <<<<9, 100000, 0, 1100000, 0>>, <<9, 931170001, 5, 353314041>>>>,
      <<<<9, 100000, 0, 6200000, 0>>, <<55, 779576790, 2, 617819636>>>>,
      <<<<9, 100000, 0, 6700000, 0>>, <<60, 239081911, 1, 766714043>>>>,
      <<<<9, 120000, 0, 6220000, 0>>, <<55, 974378611, 2, 906837037>>>>,
      <<<<9, 126000, 0, 6222000, 0>>, <<55, 996955702, 2, 999670512>>>>,
      <<<<9, 126000, 0, 6222300, 0>>, <<55, 999636408, 2, 999253660>>>>,
      <<<<9, 126040, 0, 6222330, 0>>, <<55, 999935626, 2, 999849809>>>>,
      <<<<9, 126049, 0, 6222336, 0>>, <<55, 999996247, 2, 999984986>>>>,
      <<<<9, 126049, 970712682, 6222336, 335316707>>, <<55, 999999999, 3, 0>>>>,
      <<<<9, 170000, 0, 1100000, 0>>, <<9, 937510763, 5, 990811703>>>>,
      <<<<9, 171000, 0, 1106000, 0>>, <<9, 991785281, 5, 999426001>>>>,
      <<<<9, 171000, 0, 1106900, 0>>, <<9, 999914169, 5, 999351386>>>>,
      <<<<9, 171070, 0, 1106900, 0>>, <<9, 999919923, 5, 999989217>>>>,
      <<<<9, 171071, 0, 1106908, 0>>, <<9, 999992262, 5, 999997665>>>>,
      <<<<9, 171071, 263392623, 1106908, 854248135>>, <<10, 0, 5, 999999994>>>>,
      <<<<9, 171071, 263941312, 1106908, 854243142>>, <<10, 0, 6, 0>>>>,
      <<<<9, 190000, 0, 6710000, 0>>, <<60, 406973107, 3, 368314088>>>>,
      <<<<9, 198000, 0, 6719000, 0>>, <<60, 493460726, 3, 499231891>>>>,
      <<<<9, 198100, 0, 6719700, 0>>, <<60, 499791687, 3, 499980771>>>>,
      <<<<9, 198100, 0, 6719720, 0>>, <<60, 499970432, 3, 499950399>>>>,
      <<<<9, 198102, 0, 6719723, 0>>, <<60, 499998741, 3, 499982083>>>>,
      <<<<9, 198102, 993569468, 6719723, 57492919>>, <<60, 499999999, 3, 499999999>>>>,
      <<<<9, 300000, 0, 6700000, 0>>, <<60, 386806781, 5, 370658325>>>>,
      <<<<9, 300000, 0, 7100000, 0>>, <<63, 969247075, 4, 913395338>>>>,
      <<<<9, 304000, 0, 7103000, 0>>, <<63, 998379133, 4, 991034831>>>>,
      <<<<9, 304400, 0, 7103000, 0>>, <<63, 998604462, 4, 999192340>>>>,
      <<<<9, 304440, 0, 7103040, 0>>, <<63, 998985056, 4, 999956829>>>>,
      <<<<9, 304442, 0, 7103041, 0>>, <<63, 998995133, 4, 999996336>>>>,
      <<<<9, 304442, 212981761, 7103041, 530224798>>, <<63, 999000000, 4, 999999999>>>>,
      <<<<9, 390000, 0, 6700000, 0>>, <<60, 421300247, 7, 2225081>>>>,
      <<<<9, 390000, 0, 6708000, 0>>, <<60, 493085587, 6, 997809313>>>>,
      <<<<9, 390100, 0, 6708700, 0>>, <<60, 499394053, 6, 999241080>>>>,
      <<<<9, 390140, 0, 6708760, 0>>, <<60, 499943350, 6, 999935594>>>>,
      <<<<9, 390143, 0, 6708766, 0>>, <<60, 499998007, 6, 999986854>>>>,
      <<<<9, 390143, 728661696, 6708766, 199883387>>, <<60, 499999999, 6, 999999999>>>>,
      <<<<9, 450000, 0, 8500000, 0>>, <<76, 573510860, 7, 70661836>>>>,
      <<<<9, 500000, 0, 8500000, 0>>, <<76, 580849517, 9, 0>>>>,
      <<<<9, 600000, 0, -100000, 0>>, <<-1, 95381421, 9, 898748937>>>>,
      <<<<9, 600000, 0, 0, 0>>, <<0, 0, 9, 898637660>>>>,
      <<<<9, 600000, 0, 6600000, 0>>, <<59, 526408304, 10, 767765365>>>>,
      <<<<9, 610000, 0, -10000, 0>>, <<-1, 909540418, 9, 988494082>>>>,
      <<<<9, 610000, 0, 0, 0>>, <<0, 0, 9, 988492858>>>>,
      <<<<9, 611000, 0, -1000, 0>>, <<-1, 990954066, 9, 997478259>>>>,
      <<<<9, 611000, 0, 0, 0>>, <<0, 0, 9, 997478247>>>>,
      <<<<9, 611200, 0, -100, 0>>, <<-1, 999095407, 9, 999275321>>>>,
      <<<<9, 611200, 0, 0, 0>>, <<0, 0, 9, 999275321>>>>,
      <<<<9, 611280, 0, -10, 0>>, <<-1, 999909540, 9, 999994151>>>>,
      <<<<9, 611280, 0, -1, 0>>, <<-1, 999990954, 9, 999994151>>>>,
      <<<<9, 611280, 0, 0, 0>>, <<0, 0, 9, 999994151>>>>,
      <<<<9, 611280, 650891400, -1, 988945300>>, <<-1, 999999900, 9, 999999999>>>>,
      <<<<9, 611280, 650891400, 0, 0>>, <<0, 0, 9, 999999999>>>>,
      <<<<9, 611280, 650891400, 0, 11054698>>, <<0, 99, 9, 999999999>>>>,
      <<<<9, 660000, 0, 6650000, 0>>, <<59, 956221302, 11, 865342244>>>>,
      <<<<9, 667000, 0, 6655000, 0>>, <<59, 998277309, 11, 994554907>>>>,
      <<<<9, 667200, 0, 6655200, 0>>, <<59, 999989407, 11, 998297891>>>>,
      <<<<9, 667290, 0, 6655200, 0>>, <<59, 999952790, 11, 999909228>>>>,
      <<<<9, 667294, 0, 6655205, 0>>, <<59, 999995997, 11, 999984905>>>>,
      <<<<9, 667294, 765385010, 6655205, 481104743>>, <<59, 999999999, 11, 999998999>>>>,
      <<<<9, 899999, 999599999, 1000000, 0>>, <<9, 28523410, 12, 637154474>>>>,
      <<<<15, 300000, 0, 6600000, 0>>, <<59, 490625599, 11, 467397959>>>>,
      <<<<15, 300000, 0, 8600000, 0>>, <<77, 351485943, 6, 792606852>>>>,
      <<<<15, 330000, 0, 6650000, 0>>, <<59, 952214676, 11, 955859967>>>>,
      <<<<15, 332000, 0, 6655000, 0>>, <<59, 997869863, 11, 987542453>>>>,
      <<<<15, 332700, 0, 6655200, 0>>, <<59, 999948720, 11, 999911734>>>>,
      <<<<15, 332705, 0, 6655205, 0>>, <<59, 999995590, 11, 999997190>>>>,
      <<<<15, 332705, 178875548, 6655205, 483634563>>, <<60, 0, 12, 0>>>>,
      <<<<15, 360000, 0, 8690000, 0>>, <<78, 217421296, 8, 847576108>>>>,
      <<<<15, 364000, 0, 8698000, 0>>, <<78, 292419321, 8, 986084532>>>>,
      <<<<15, 364400, 0, 8698800, 0>>, <<78, 299915514, 9, 31179>>>>,
      <<<<15, 364400, 0, 8698809, 0>>, <<78, 299995715, 8, 999990486>>>>,
      <<<<15, 364400, 263254184, 8698809, 453694833>>, <<78, 300000000, 8, 999999999>>>>,
      <<<<15, 600000, 0, 7900000, 0>>, <<71, 182080112, 17, 778549621>>>>,
      <<<<15, 600000, 0, 8600000, 0>>, <<77, 445472021, 19, 124354148>>>>,
      <<<<15, 630000, 0, 8690000, 0>>, <<78, 226490089, 20, 715923297>>>>,
      <<<<15, 635000, 0, 8698000, 0>>, <<78, 293335225, 20, 970009495>>>>,
      <<<<15, 635500, 0, 8698800, 0>>, <<78, 300007195, 20, 995575649>>>>,
      <<<<15, 635570, 0, 8698800, 0>>, <<78, 299943025, 20, 998650876>>>>,
      <<<<15, 635577, 0, 8698807, 0>>, <<78, 299998985, 20, 998990042>>>>,
      <<<<15, 635577, 212694844, 8698807, 135703355>>, <<78, 299999999, 20, 999000000>>>>,
      <<<<15, 670000, 0, 7990000, 0>>, <<71, 947310211, 19, 919888992>>>>,
      <<<<15, 672000, 0, 7996000, 0>>, <<71, 999427885, 19, 991846982>>>>,
      <<<<15, 672200, 0, 7996000, 0>>, <<71, 999279415, 19, 997623470>>>>,
      <<<<15, 672270, 0, 7996080, 0>>, <<71, 999941902, 19, 999837466>>>>,
      <<<<15, 672275, 0, 7996086, 0>>, <<71, 999991774, 19, 999996301>>>>,
      <<<<15, 672275, 51070391, 7996086, 925265260>>, <<72, 0, 19, 999999999>>>>,
      <<<<15, 700000, 0, 800000, 0>>, <<7, 233863650, 16, 811380013>>>>,
      <<<<15, 770000, 0, 880000, 0>>, <<7, 953897212, 17, 449111980>>>>,
      <<<<15, 775000, 0, 885000, 0>>, <<7, 998811989, 17, 494710800>>>>,
      <<<<15, 775500, 0, 885100, 0>>, <<7, 999688259, 17, 499249196>>>>,
      <<<<15, 775580, 0, 885120, 0>>, <<7, 999864605, 17, 499975560>>>>,
      <<<<15, 775582, 0, 885123, 0>>, <<7, 999891606, 17, 499993857>>>>,
      <<<<15, 775582, 671932305, 885123, 932895091>>, <<7, 999899999, 17, 500000000>>>>,
      <<<<15, 800000, 0, 0, 0>>, <<0, 0, 17, 695023222>>>>,
      <<<<15, 800000, 0, 1200000, 0>>, <<10, 843253001, 17, 743728776>>>>,
      <<<<21, 300000, 0, 800000, 0>>, <<7, 233863650, 19, 188619986>>>>,
      <<<<21, 380000, 0, 880000, 0>>, <<7, 959695233, 19, 911232864>>>>,
      <<<<21, 389000, 0, 884000, 0>>, <<7, 996078043, 19, 992792875>>>>,
      <<<<21, 389700, 0, 884400, 0>>, <<7, 999711144, 19, 999135145>>>>,
      <<<<21, 389790, 0, 884430, 0>>, <<7, 999984447, 19, 999951061>>>>,
      <<<<21, 389795, 0, 884431, 0>>, <<7, 999993601, 19, 999996405>>>>,
      <<<<21, 389795, 397922159, 884431, 706491422>>, <<7, 999999999, 19, 999999999>>>>,
      <<<<21, 400000, 0, -8900000, 0>>, <<-81, 875333764, 15, 770284121>>>>,
      <<<<21, 400000, 0, 7900000, 0>>, <<71, 182080112, 18, 221450378>>>>,
      <<<<21, 460000, 0, 7980000, 0>>, <<71, 916482353, 19, 845370139>>>>,
      <<<<21, 465000, 0, 7989000, 0>>, <<71, 997962513, 19, 985293976>>>>,
      <<<<21, 465500, 0, 7989200, 0>>, <<71, 999830251, 19, 999690685>>>>,
      <<<<21, 465510, 0, 7989200, 0>>, <<71, 999831739, 19, 999980573>>>>,
      <<<<21, 465510, 0, 7989207, 0>>, <<71, 999894487, 19, 999977205>>>>,
      <<<<21, 465510, 796316993, 7989207, 601799755>>, <<71, 999900000, 20, 0>>>>,
      <<<<21, 480000, 0, -8890000, 0>>, <<-81, 926215488, 19, 960670017>>>>,
      <<<<21, 480000, 0, -8882000, 0>>, <<-81, 997878392, 19, 968044102>>>>,
      <<<<21, 480600, 0, -8881800, 0>>, <<-81, 999576073, 19, 999173984>>>>,
      <<<<21, 480610, 0, -8881760, 0>>, <<-81, 999932852, 19, 999725245>>>>,
      <<<<21, 480615, 0, -8881753, 0>>, <<-81, 999994788, 19, 999989335>>>>,
      <<<<21, 480615, 206295922, -8881753, 27196047>>, <<-81, 999994999, 19, 999999999>>>>,
      <<<<21, 480615, 235071607, -8881755, 353206515>>, <<-81, 999979999, 19, 999999999>>>>,
      <<<<21, 500000, 0, 8500000, 0>>, <<76, 580849517, 21, 0>>>>,
      <<<<27, 300000, 0, 8600000, 0>>, <<77, 351485943, 18, 792606852>>>>,
      <<<<27, 360000, 0, 8690000, 0>>, <<78, 217421296, 20, 847576108>>>>,
      <<<<27, 364000, 0, 8698000, 0>>, <<78, 292419321, 20, 986084532>>>>,
      <<<<27, 364400, 0, 8698800, 0>>, <<78, 299915514, 21, 31179>>>>,
      <<<<27, 364400, 0, 8698809, 0>>, <<78, 299995715, 20, 999990486>>>>,
      <<<<27, 364400, 263254184, 8698809, 453694833>>, <<78, 300000000, 20, 999999999>>>>,
      <<<<27, 500000, 0, 9300000, 0>>, <<83, 748345357, 27, 0>>>>,
      <<<<27, 530000, 0, 9320000, 0>>, <<83, 921578128, 29, 538442317>>>>,
      <<<<27, 534000, 0, 9329000, 0>>, <<84, 410809, 29, 914856753>>>>,
      <<<<27, 534900, 0, 9329000, 0>>, <<83, 999997713, 29, 991877100>>>>,
      <<<<27, 534990, 0, 9329000, 0>>, <<83, 999955811, 29, 999578547>>>>,
      <<<<27, 534994, 0, 9329005, 0>>, <<83, 999998673, 29, 999943131>>>>,
      <<<<27, 534994, 538845233, 9329007, 412193695>>, <<84, 19999, 30, 0>>>>,
      <<<<27, 534994, 626007161, 9329005, 739884000>>, <<84, 5000, 30, 0>>>>,
      <<<<27, 534994, 655061136, 9329005, 182447435>>, <<83, 999999999, 30, 0>>>>,
      <<<<33, 550000, 0, 8500000, 0>>, <<76, 573510860, 34, 929338163>>>>,
      <<<<39, 300000, 0, 8600000, 0>>, <<77, 351485943, 30, 792606852>>>>,
      <<<<39, 370000, 0, 8690000, 0>>, <<78, 226490089, 33, 284076702>>>>,
      <<<<39, 375000, 0, 8697000, 0>>, <<78, 293207674, 33, 473587716>>>>,
      <<<<39, 375600, 0, 8697600, 0>>, <<78, 299064895, 33, 497467452>>>>,
      <<<<39, 375660, 0, 8697690, 0>>, <<78, 299918082, 33, 499732342>>>>,
      <<<<39, 375666, 0, 8697698, 0>>, <<78, 299994481, 33, 499962995>>>>,
      <<<<39, 375666, 891992380, 8697698, 534638734>>, <<78, 300000000, 33, 500000000>>>>,
      <<<<39, 500000, 0, 8300000, 0>>, <<74, 788417650, 39, 0>>>>,
      <<<<39, 580000, 0, 8320000, 0>>, <<74, 950984864, 41, 761198640>>>>,
      <<<<39, 583000, 0, 8325000, 0>>, <<74, 994467961, 41, 872930264>>>>,
      <<<<39, 583700, 0, 8325600, 0>>, <<74, 999533688, 41, 898133929>>>>,
      <<<<39, 583750, 0, 8325650, 0>>, <<74, 999959356, 41, 899946909>>>>,
      <<<<39, 583751, 0, 8325654, 0>>, <<74, 999994723, 41, 899988244>>>>,
      <<<<39, 583751, 310468802, 8325654, 604651539>>, <<75, 0, 41, 900000000>>>>,
      <<<<45, 400000, 0, 8300000, 0>>, <<74, 762671688, 41, 589552985>>>>,
      <<<<45, 410000, 0, 8320000, 0>>, <<74, 946555412, 41, 894268310>>>>,
      <<<<45, 413000, 0, 8325000, 0>>, <<74, 992690648, 41, 988855895>>>>,
      <<<<45, 413300, 0, 8325700, 0>>, <<74, 999092114, 41, 997995691>>>>,
      <<<<45, 413360, 0, 8325790, 0>>, <<74, 999924843, 41, 999912055>>>>,
      <<<<45, 413362, 0, 8325798, 0>>, <<74, 999997353, 41, 999967189>>>>,
      <<<<45, 413362, 961728047, 8325798, 247025638>>, <<75, 0, 42, 0>>>>,
      <<<<51, 481383, 23235150, -8926393, 348667977>>, <<-81, 599999999, 50, 0>>>>,
      <<<<51, 481575, 135414491, -8937554, 572970781>>, <<-81, 499995000, 49, 999999999>>>>,
      <<<<51, 489105, 829522348, 9372843, 557596439>>, <<84, 399999999, 49, 999999999>>>>,
      <<<<51, 489299, 762864040, 9384006, 321710985>>, <<84, 500004999, 50, 0>>>>,
      <<<<75, 500000, 0, 9200000, 0>>, <<82, 852560273, 75, 0>>>>,
      <<<<75, 520000, 0, 9270000, 0>>, <<83, 477163300, 76, 577142575>>>>,
      <<<<75, 525000, 0, 9272000, 0>>, <<83, 493690551, 76, 976552773>>>>,
      <<<<75, 525200, 0, 9272700, 0>>, <<83, 499895562, 76, 994265727>>>>,
      <<<<75, 525270, 0, 9272710, 0>>, <<83, 499963375, 76, 999828325>>>>,
      <<<<75, 525272, 0, 9272713, 0>>, <<83, 499989610, 76, 999994705>>>>,
      <<<<75, 525272, 46018644, 9272713, 603569351>>, <<83, 499994999, 77, 0>>>>,
      <<<<99, 500000, 0, 9300000, 0>>, <<83, 748345357, 99, 0>>>>,
      <<<<99, 510000, 0, 9320000, 0>>, <<83, 926840443, 99, 846637112>>>>,
      <<<<99, 511000, 0, 9328000, 0>>, <<83, 998353616, 99, 942363684>>>>,
      <<<<99, 511600, 0, 9328100, 0>>, <<83, 999158937, 99, 993903132>>>>,
      <<<<99, 511660, 0, 9328180, 0>>, <<83, 999866140, 99, 999161843>>>>,
      <<<<99, 511669, 0, 9328183, 0>>, <<83, 999891611, 99, 999937371>>>>,
      <<<<99, 511669, 714526872, 9328183, 949066419>>, <<83, 999899999, 99, 999999999>>>>,
      <<<<105, 300000, 0, 100000, 0>>, <<0, 904282609, 103, 202724770>>>>,
      <<<<105, 360000, 0, 140000, 0>>, <<1, 266314426, 103, 741651810>>>>,
      <<<<105, 368000, 0, 149000, 0>>, <<1, 347756373, 103, 813508543>>>>,
      <<<<105, 368700, 0, 149400, 0>>, <<1, 351377581, 103, 819797900>>>>,
      <<<<105, 368700, 0, 149470, 0>>, <<1, 352010754, 103, 819797595>>>>,
      <<<<105, 368700, 0, 149479, 0>>, <<1, 352092162, 103, 819797555>>>>,
      <<<<105, 368700, 272373037, 149479, 866291019>>, <<1, 352099999, 103, 819800000>>>>,
      <<<<123, 400000, 0, 9200000, 0>>, <<82, 796942201, 115, 838344859>>>>,
      <<<<123, 460000, 0, 9270000, 0>>, <<83, 469819069, 119, 848085859>>>>,
      <<<<123, 462000, 0, 9273000, 0>>, <<83, 497609844, 119, 993073028>>>>,
      <<<<123, 462100, 0, 9273200, 0>>, <<83, 499445571, 120, 149086>>>>,
      <<<<123, 462100, 0, 9273260, 0>>, <<83, 499982301, 119, 999902237>>>>,
      <<<<123, 462101, 0, 9273261, 0>>, <<83, 499991713, 119, 999977137>>>>,
      <<<<123, 462101, 336665538, 9273261, 908855400>>, <<83, 499999999, 119, 999999999>>>>,
      <<<<141, 300000, 0, 3900000, 0>>, <<35, 223124940, 138, 802458346>>>>,
      <<<<141, 370000, 0, 3940000, 0>>, <<35, 595205027, 139, 564947820>>>>,
      <<<<141, 377000, 0, 3948000, 0>>, <<35, 668211955, 139, 640979641>>>>,
      <<<<141, 377800, 0, 3948800, 0>>, <<35, 675522525, 139, 649695123>>>>,
      <<<<141, 377850, 0, 3948870, 0>>, <<35, 676159693, 139, 650236858>>>>,
      <<<<141, 377855, 0, 3948874, 0>>, <<35, 676196368, 139, 650291487>>>>,
      <<<<141, 377855, 775951768, 3948874, 392162377>>, <<35, 676199999, 139, 650300000>>>>,
      <<<<153, 300000, 0, -3800000, 0>>, <<-35, 677994947, 150, 826229238>>>>,
      <<<<153, 330000, 0, -3760000, 0>>, <<-34, 33202630, 151, 159969281>>>>,
      <<<<153, 330000, 0, -3750000, 0>>, <<-34, 123346377, 151, 161906845>>>>,
      <<<<153, 334000, 0, -3765000, 0>>, <<-35, 987490618, 151, 202296042>>>>,
      <<<<153, 334000, 0, -3750000, 0>>, <<-34, 122708944, 151, 205137284>>>>,
      <<<<153, 334300, 0, -3749100, 0>>, <<-34, 130774963, 151, 208549187>>>>,
      <<<<153, 334350, 0, -3749100, 0>>, <<-34, 130767108, 151, 209089527>>>>,
      <<<<153, 334360, 0, -3749060, 0>>, <<-34, 131126124, 151, 209205127>>>>,
      <<<<153, 334368, 0, -3749052, 0>>, <<-34, 131196985, 151, 209293087>>>>,
      <<<<153, 334368, 633648097, -3749052, 345385009>>, <<-34, 131200000, 151, 209300000>>>>,
      <<<<177, 500000, 0, 1100000, 0>>, <<9, 951046248, 177, 0>>>>,
      <<<<177, 500000, 0, 1105000, 0>>, <<9, 996269191, 177, 0>>>>,
      <<<<177, 500000, 0, 1105400, 0>>, <<9, 999887021, 177, 0>>>>,
      <<<<177, 500000, 0, 1105410, 0>>, <<9, 999977467, 177, 0>>>>,
      <<<<177, 500000, 0, 1105412, 0>>, <<9, 999995556, 177, 0>>>>,
      <<<<177, 500000, 0, 1105412, 491301078>>, <<10, 0, 177, 0>>>>,
      <<<<177, 833000, 0, 1000000, 0>>, <<9, 34053997, -180, 28574918>>>>
    }

PSForwardEntries ==
    {
      <<<<0, 0, 0, 0, 0>>, <<2000000, 0, -10637319, 501742595>>>>,
      <<<<0, 83, 499995000, 77, 0>>, <<2703884, 116327, 1837495, 574130917>>>>,
      <<<<0, 83, 500000000, 120, 0>>, <<2625615, 438706375, 2361199, 241946311>>>>,
      <<<<0, 83, 999900000, 100, 0>>, <<2656609, 574266192, 2115777, 983734628>>>>,
      <<<<0, 84, 0, 30, 0>>, <<2333363, 851841988, 1422596, 871202811>>>>,
      <<<<0, 84, 5000, 30, 0>>, <<2333363, 573550879, 1422597, 353217151>>>>,
      <<<<0, 84, 20000, 30, 0>>, <<2333362, 738677558, 1422598, 799260161>>>>,
      <<<<0, 84, 8117107, 2, 999999999>>, <<2034846, 543022437, 1335088, 349494071>>>>,
      <<<<0, 84, 8117107, 3, 0>>, <<2034846, 543022437, 1335088, 349494071>>>>,
      <<<<0, 84, 196226136, 2, 999999999>>, <<2033750, 744781023, 1355997, 425520665>>>>,
      <<<<0, 84, 196226136, 3, 0>>, <<2033750, 744781023, 1355997, 425520665>>>>,
      <<<<0, 84, 400000000, 50, 0>>, <<2476639, 570285758, 1600051, 912368722>>>>,
      <<<<0, 84, 500005000, 50, 0>>, <<2468115, 50934650, 1607204, 833412200>>>>,
      <<<<0, 84, 600000000, 50, 0>>, <<2459592, 69801384, 1614356, 463737655>>>>,
      <<<<0, 85, 0, 10, 0>>, <<2096454, 163785228, 1452981, 254498402>>>>,
      <<<<0, 87, 0, 360, 0>>, <<2000000, 0, 1666855, 514553786>>>>,
      <<<<0, 88, 0, -180, 0>>, <<2000000, 0, 2222069, 268928818>>>>,
      <<<<0, 88, 0, 180, 0>>, <<2000000, 0, 2222069, 268928818>>>>,
      <<<<1, -88, 500000000, -121, 750000000>>, <<1760197, 706173977, 1860151, 435617605>>>>,
      <<<<1, -85, 0, 10, 0>>, <<2096454, 163785228, 2547018, 745501597>>>>,
      <<<<1, -81, 499995000, 50, 0>>, <<2809748, 50967556, 2679459, 290913397>>>>,
      <<<<1, -81, 600000000, 50, 0>>, <<2818310, 354394847, 2686643, 916561266>>>>,
      <<<<1, -81, 835021751, 2, 999999999>>, <<2057281, 823492113, 3093002, 303775337>>>>,
      <<<<1, -81, 835021751, 3, 0>>, <<2057281, 823492113, 3093002, 303775337>>>>,
      <<<<1, -81, 999980000, 20, 0>>, <<2380650, 942348962, 3045829, 868797898>>>>,
      <<<<1, -81, 999995000, 20, 0>>, <<2380651, 516119075, 3045831, 445218327>>>>,
      <<<<1, -80, 0, 0, 0>>, <<2000000, 0, 3112951, 136954905>>>>,
      <<<<1, -80, 500000000, -60, 0>>, <<987710, 88724697, 2584445, 852772738>>>>,
      <<<<1, -80, 500005000, -60, 0>>, <<987709, 604081581, 2584446, 132581572>>>>,
      <<<<1, 0, 0, 0, 0>>, <<2000000, 0, 14637318, 498257404>>>>
    }

PSInverseEntries ==
    {
      <<<<0, 2000000, 0, 1300000, 0>>, <<83, 701141559, 0, 0>>>>,
      <<<<0, 2000000, 0, 1400000, 0>>, <<84, 599594089, 0, 0>>>>,
      <<<<0, 2000000, 0, 1600000, 0>>, <<86, 398307938, 0, 0>>>>,
      <<<<0, 2000000, 0, 1660000, 0>>, <<86, 938293299, 0, 0>>>>,
      <<<<0, 2000000, 0, 1666000, 0>>, <<86, 992299394, 0, 0>>>>,
      <<<<0, 2000000, 0, 1666800, 0>>, <<86, 999500305, 0, 0>>>>,
      <<<<0, 2000000, 0, 1666850, 0>>, <<86, 999950362, 0, 0>>>>,
      <<<<0, 2000000, 0, 1666855, 0>>, <<86, 999995368, 0, 0>>>>,
      <<<<0, 2000000, 0, 1666855, 514553786>>, <<87, 0, 0, 0>>>>,
      <<<<0, 2000000, 0, 2200000, 0>>, <<88, 198727076, 180, 0>>>>,
      <<<<0, 2000000, 0, 2220000, 0>>, <<88, 18632666, 180, 0>>>>,
      <<<<0, 2000000, 0, 2222000, 0>>, <<88, 623728, 180, 0>>>>,
      <<<<0, 2000000, 0, 2222060, 0>>, <<88, 83461, 180, 0>>>>,
      <<<<0, 2000000, 0, 2222069, 0>>, <<88, 2421, 180, 0>>>>,
      <<<<0, 2000000, 0, 2222069, 268928818>>, <<88, 0, 180, 0>>>>,
      <<<<0, 2000000, 0, 2500000, 0>>, <<85, 498684784, 180, 0>>>>,
      <<<<0, 2010000, 0, 1310000, 0>>, <<83, 790304275, 0, 830315486>>>>,
      <<<<0, 2010000, 0, 1330000, 0>>, <<83, 969933689, 0, 855097396>>>>,
      <<<<0, 2010000, 0, 2510000, 0>>, <<85, 407868405, 178, 876697285>>>>,
      <<<<0, 2010000, 0, 2530000, 0>>, <<85, 228048615, 178, 919075813>>>>,
      <<<<0, 2030000, 0, 1310000, 0>>, <<83, 785100227, 2, 489552921>>>>,
      <<<<0, 2030000, 0, 1330000, 0>>, <<83, 964573604, 2, 563770211>>>>,
      <<<<0, 2030000, 0, 2510000, 0>>, <<85, 400821697, 176, 633539336>>>>,
      <<<<0, 2030000, 0, 2530000, 0>>, <<85, 221268174, 176, 760299703>>>>,
      <<<<0, 2090000, 0, 1450000, 0>>, <<84, 983299104, 9, 293308599>>>>,
      <<<<0, 2090000, 0, 1460000, 0>>, <<85, 72005717, 9, 462322208>>>>,
      <<<<0, 2096000, 0, 1452000, 0>>, <<84, 992017915, 9, 936389943>>>>,
      <<<<0, 2096400, 0, 1452900, 0>>, <<84, 999365093, 9, 993043311>>>>,
      <<<<0, 2096450, 0, 1452980, 0>>, <<84, 999995392, 9, 999554557>>>>,
      <<<<0, 2096454, 0, 1452981, 0>>, <<84, 999998002, 9, 999978803>>>>,
      <<<<0, 2096454, 163785228, 1452981, 254498402>>, <<85, 0, 10, 0>>>>,
      <<<<0, 2300000, 0, 1400000, 0>>, <<83, 963234332, 26, 565051177>>>>,
      <<<<0, 2330000, 0, 1420000, 0>>, <<83, 994786755, 29, 638383688>>>>,
      <<<<0, 2333000, 0, 1422000, 0>>, <<83, 996988213, 29, 947301393>>>>,
      <<<<0, 2333300, 0, 1422500, 0>>, <<83, 999533087, 29, 991086323>>>>,
      <<<<0, 2333360, 0, 1422590, 0>>, <<83, 999963844, 29, 999418098>>>>,
      <<<<0, 2333362, 0, 1422598, 0>>, <<84, 17099, 29, 999910682>>>>,
      <<<<0, 2333362, 738677558, 1422598, 799260161>>, <<84, 19999, 29, 999999999>>>>,
      <<<<0, 2333363, 573550879, 1422597, 353217151>>, <<84, 4999, 30, 0>>>>,
      <<<<0, 2333363, 851841988, 1422596, 871202811>>, <<83, 999999999, 30, 0>>>>,
      <<<<0, 2400000, 0, 1600000, 0>>, <<84, 908046645, 45, 0>>>>,
      <<<<0, 2450000, 0, 1610000, 0>>, <<84, 640193071, 49, 85616779>>>>,
      <<<<0, 2459000, 0, 1614000, 0>>, <<84, 602013875, 49, 937553735>>>>,
      <<<<0, 2459500, 0, 1614300, 0>>, <<84, 600307625, 49, 990216877>>>>,
      <<<<0, 2459590, 0, 1614350, 0>>, <<84, 599976907, 49, 999400075>>>>,
      <<<<0, 2459592, 0, 1614356, 0>>, <<84, 599997801, 49, 999961789>>>>,
      <<<<0, 2459592, 69801384, 1614356, 463737655>>, <<84, 599999999, 50, 0>>>>,
      <<<<0, 2460000, 0, 1600000, 0>>, <<84, 513402920, 48, 990913098>>>>,
      <<<<0, 2468000, 0, 1607000, 0>>, <<84, 499613394, 49, 978355339>>>>,
      <<<<0, 2468100, 0, 1607200, 0>>, <<84, 500080696, 49, 998745721>>>>,
      <<<<0, 2468110, 0, 1607200, 0>>, <<84, 500011851, 49, 999348424>>>>,
      <<<<0, 2468115, 0, 1607204, 0>>, <<84, 500000536, 49, 999937070>>>>,
      <<<<0, 2468115, 50934650, 1607204, 833412200>>, <<84, 500004999, 50, 0>>>>,
      <<<<0, 2470000, 0, 1600000, 0>>, <<84, 445272808, 49, 600095666>>>>,
      <<<<0, 2476000, 0, 1600000, 0>>, <<84, 404101486, 49, 958450919>>>>,
      <<<<0, 2476600, 0, 1600000, 0>>, <<84, 399972506, 49, 993995892>>>>,
      <<<<0, 2476630, 0, 1600050, 0>>, <<84, 400054835, 49, 999298620>>>>,
      <<<<0, 2476639, 0, 1600051, 0>>, <<84, 399998655, 49, 999901885>>>>,
      <<<<0, 2476639, 570285758, 1600051, 912368722>>, <<84, 399999999, 49, 999999999>>>>,
      <<<<0, 2625615, 438706375, 2361199, 241946311>>, <<83, 499999999, 120, 0>>>>,
      <<<<0, 2656609, 574266192, 2115777, 983734628>>, <<83, 999899999, 100, 0>>>>,
      <<<<0, 2703884, 116327, 1837495, 574130917>>, <<83, 499994999, 77, 0>>>>,
      <<<<1, 987709, 604081581, 2584446, 132581572>>, <<-80, 500005000, -60, 0>>>>,
      <<<<1, 987710, 88724697, 2584445, 852772738>>, <<-80, 500000000, -60, 0>>>>,
      <<<<1, 1700000, 0, 1800000, 0>>, <<-87, 246713692, -124, 309932474>>>>,
      <<<<1, 1760000, 0, 1860000, 0>>, <<-88, 502224421, -121, 743562836>>>>,
      <<<<1, 1760100, 0, 1860100, 0>>, <<-88, 500993152, -121, 750988224>>>>,
      <<<<1, 1760190, 0, 1860150, 0>>, <<-88, 500066442, -121, 750545289>>>>,
      <<<<1, 1760197, 0, 1860151, 0>>, <<-88, 500007467, -121, 749995758>>>>,
      <<<<1, 1760197, 706173977, 1860151, 435617605>>, <<-88, 500000000, -121, 750000000>>>>,
      <<<<1, 1900000, 0, 800000, 0>>, <<-80, 815028574, -176, 763641690>>>>,
      <<<<1, 1900000, 0, 2000000, 0>>, <<-90, 900689850, -90, 0>>>>,
      <<<<1, 1900000, 0, 3100000, 0>>, <<-81, 924753751, -6, 805571092>>>>,
      <<<<1, 1910000, 0, 810000, 0>>, <<-80, 718923063, -176, 325060434>>>>,
      <<<<1, 1910000, 0, 830000, 0>>, <<-80, 540783057, -176, 398705354>>>>,
      <<<<1, 1910000, 0, 2010000, 0>>, <<-90, 815612249, -84, 340191745>>>>,
      <<<<1, 1910000, 0, 2030000, 0>>, <<-90, 854471106, -72, 434948822>>>>,
      <<<<1, 1910000, 0, 3110000, 0>>, <<-80, 6183252, -5, 364536573>>>>,
      <<<<1, 1910000, 0, 3130000, 0>>, <<-80, 184411347, -5, 446232020>>>>,
      <<<<1, 1930000, 0, 810000, 0>>, <<-80, 706941504, -177, 366460663>>>>,
      <<<<1, 1930000, 0, 830000, 0>>, <<-80, 528594258, -177, 423871244>>>>,
      <<<<1, 1930000, 0, 2010000, 0>>, <<-90, 636890193, -82, 130102354>>>>,
      <<<<1, 1930000, 0, 2030000, 0>>, <<-90, 685950646, -67, 198590513>>>>,
      <<<<1, 1930000, 0, 3110000, 0>>, <<-81, 993328618, -4, 391531147>>>>,
      <<<<1, 1930000, 0, 3130000, 0>>, <<-80, 171786398, -4, 455233544>>>>,
      <<<<1, 2000000, 0, 2500000, 0>>, <<-86, 501315215, 0, 0>>>>,
      <<<<1, 2000000, 0, 3112951, 136954905>>, <<-80, 0, 0, 0>>>>,
      <<<<1, 2090000, 0, 2540000, 0>>, <<-86, 927994282, 9, 462322208>>>>,
      <<<<1, 2096000, 0, 2547000, 0>>, <<-86, 999126578, 9, 954192186>>>>,
      <<<<1, 2096400, 0, 2547000, 0>>, <<-86, 999749485, 9, 994833359>>>>,
      <<<<1, 2096450, 0, 2547010, 0>>, <<-86, 999916066, 9, 999733672>>>>,
      <<<<1, 2096454, 0, 2547018, 0>>, <<-86, 999993143, 9, 999996715>>>>,
      <<<<1, 2096454, 163785228, 2547018, 745501597>>, <<-85, 0, 10, 0>>>>,
      <<<<1, 2300000, 0, 3000000, 0>>, <<-81, 383482262, 16, 699244233>>>>,
      <<<<1, 2380000, 0, 3040000, 0>>, <<-81, 949011664, 20, 71525864>>>>,
      <<<<1, 2380000, 0, 3045000, 0>>, <<-81, 991017014, 19, 983106521>>>>,
      <<<<1, 2380600, 0, 3045800, 0>>, <<-81, 999573254, 19, 998061431>>>>,
      <<<<1, 2380650, 0, 3045820, 0>>, <<-81, 999894198, 20, 128179>>>>,
      <<<<1, 2380650, 0, 3045829, 0>>, <<-81, 999969818, 19, 999969709>>>>,
      <<<<1, 2380650, 942348962, 3045829, 868797898>>, <<-81, 999980000, 19, 999999999>>>>,
      <<<<1, 2380651, 516119075, 3045831, 445218327>>, <<-81, 999995000, 19, 999999999>>>>,
      <<<<1, 2800000, 0, 2600000, 0>>, <<-82, 989336735, 53, 130102354>>>>,
      <<<<1, 2800000, 0, 2670000, 0>>, <<-81, 378766565, 50, 53826050>>>>,
      <<<<1, 2809000, 0, 2679000, 0>>, <<-81, 492225966, 49, 993001975>>>>,
      <<<<1, 2809700, 0, 2679400, 0>>, <<-81, 499324626, 50, 787789>>>>,
      <<<<1, 2809740, 0, 2679450, 0>>, <<-81, 499886378, 50, 105274>>>>,
      <<<<1, 2809748, 0, 2679459, 0>>, <<-81, 499992977, 50, 10303>>>>,
      <<<<1, 2809748, 50967556, 2679459, 290913397>>, <<-81, 499995000, 50, 0>>>>,
      <<<<1, 2810000, 0, 2680000, 0>>, <<-81, 504832113, 49, 986333771>>>>,
      <<<<1, 2818000, 0, 2686000, 0>>, <<-81, 594170359, 50, 15766705>>>>,
      <<<<1, 2818300, 0, 2686600, 0>>, <<-81, 599676487, 50, 1447496>>>>,
      <<<<1, 2818310, 0, 2686640, 0>>, <<-81, 599975048, 50, 148704>>>>,
      <<<<1, 2818310, 0, 2686643, 0>>, <<-81, 599992300, 50, 25441>>>>,
      <<<<1, 2818310, 354394847, 2686643, 916561266>>, <<-81, 600000000, 49, 999999999>>>>
    }

\* The passes of the loop of geodeticLat for the arguments of TMInverseEntries,
\* and 1 when the loop ended by its break.
GeodeticLatEntries ==
    {
      <<<<-177, 100000, 0, 0, 0>>, <<2, 1>>>>,
      <<<<-177, 100000, 0, 1100000, 0>>, <<6, 1>>>>,
      <<<<-177, 100000, 0, 1200000, 0>>, <<6, 1>>>>,
      <<<<-177, 166500, 0, 1000000, 0>>, <<6, 1>>>>,
      <<<<-177, 170000, 0, 1100000, 0>>, <<6, 1>>>>,
      <<<<-177, 171000, 0, 1106000, 0>>, <<6, 1>>>>,
      <<<<-177, 171000, 0, 1106900, 0>>, <<6, 1>>>>,
      <<<<-177, 171070, 0, 1106900, 0>>, <<6, 1>>>>,
      <<<<-177, 171071, 0, 1106908, 0>>, <<6, 1>>>>,
      <<<<-177, 171071, 263831576, 1106908, 854244141>>, <<6, 1>>>>,
      <<<<-177, 171071, 263941310, 1106908, 854243142>>, <<6, 1>>>>,
      <<<<-165, 800000, 0, 0, 0>>, <<2, 1>>>>,
      <<<<-165, 800000, 0, 1200000, 0>>, <<6, 1>>>>,
      <<<<-117, 500000, 0, 0, 0>>, <<2, 1>>>>,
      <<<<-117, 500000, 0, 1200000, 0>>, <<6, 1>>>>,
      <<<<-105, 100000, 0, 0, 0>>, <<2, 1>>>>,
      <<<<-105, 100000, 0, 1200000, 0>>, <<6, 1>>>>,
      <<<<-87, 100000, 0, 1100000, 0>>, <<6, 1>>>>,
      <<<<-87, 170000, 0, 1100000, 0>>, <<6, 1>>>>,
      <<<<-87, 171000, 0, 1106000, 0>>, <<6, 1>>>>,
      <<<<-87, 171000, 0, 1106900, 0>>, <<6, 1>>>>,
      <<<<-87, 171070, 0, 1106900, 0>>, <<6, 1>>>>,
      <<<<-87, 171071, 0, 1106908, 0>>, <<6, 1>>>>,
      <<<<-87, 171071, 263941310, 1106908, 854243142>>, <<6, 1>>>>,
      <<<<-87, 700000, 0, 3700000, 0>>, <<6, 1>>>>,
      <<<<-87, 730000, 0, 3720000, 0>>, <<6, 1>>>>,
      <<<<-87, 730000, 0, 3780000, 0>>, <<6, 1>>>>,
      <<<<-87, 738000, 0, 3724000, 0>>, <<6, 1>>>>,
      <<<<-87, 738000, 0, 3755000, 0>>, <<6, 1>>>>,
      <<<<-87, 738500, 0, 3724800, 0>>, <<6, 1>>>>,
      <<<<-87, 738500, 0, 3750200, 0>>, <<6, 1>>>>,
      <<<<-87, 738550, 0, 3702480, 0>>, <<6, 1>>>>,
      <<<<-87, 738550, 0, 3724840, 0>>, <<6, 1>>>>,
      <<<<-87, 738550, 0, 3724842, 0>>, <<6, 1>>>>,
      <<<<-87, 738550, 628026763, 3724842, 168950330>>, <<6, 1>>>>,
      <<<<-87, 738551, 0, 3724838, 0>>, <<6, 1>>>>,
      <<<<-69, 500000, 0, -6100000, 0>>, <<5, 1>>>>,
      <<<<-69, 540000, 0, -6080000, 0>>, <<5, 1>>>>,
      <<<<-69, 544000, 0, -6073000, 0>>, <<5, 1>>>>,
      <<<<-69, 544800, 0, -6073000, 0>>, <<5, 1>>>>,
      <<<<-69, 544800, 0, -6072980, 0>>, <<5, 1>>>>,
      <<<<-69, 544805, 0, -6072971, 0>>, <<5, 1>>>>,
      <<<<-69, 544805, 97450888, -6072971, 884698996>>, <<5, 1>>>>,
      <<<<-57, 400000, 0, -8900000, 0>>, <<4, 1>>>>,
      <<<<-57, 430000, 0, -8830000, 0>>, <<4, 1>>>>,
      <<<<-57, 438000, 0, -8828000, 0>>, <<4, 1>>>>,
      <<<<-57, 438900, 0, -8827400, 0>>, <<4, 1>>>>,
      <<<<-57, 438990, 0, -8827350, 0>>, <<4, 1>>>>,
      <<<<-57, 438990, 0, -8827340, 0>>, <<4, 1>>>>,
      <<<<-57, 438992, 0, -8827339, 0>>, <<4, 1>>>>,
      <<<<-57, 438992, 881163337, -8827339, 328002125>>, <<4, 1>>>>,
      <<<<-57, 438993, 0, -8827350, 0>>, <<4, 1>>>>,
      <<<<-57, 438993, 426845252, -8827350, 738446250>>, <<4, 1>>>>,
      <<<<-57, 438993, 455565358, -8827350, 181101202>>, <<4, 1>>>>,
      <<<<-45, 600000, 0, -2600000, 0>>, <<6, 1>>>>,
      <<<<-45, 680000, 0, -2540000, 0>>, <<6, 1>>>>,
      <<<<-45, 687000, 0, -2535000, 0>>, <<6, 1>>>>,
      <<<<-45, 687300, 0, -2534400, 0>>, <<6, 1>>>>,
      <<<<-45, 687390, 0, -2534370, 0>>, <<6, 1>>>>,
      <<<<-45, 687394, 0, -2534366, 0>>, <<6, 1>>>>,
      <<<<-45, 687394, 593291124, -2534366, 127714328>>, <<6, 1>>>>,
      <<<<-21, 400000, 0, 7100000, 0>>, <<5, 1>>>>,
      <<<<-21, 450000, 0, 7110000, 0>>, <<5, 1>>>>,
      <<<<-21, 454000, 0, 7113000, 0>>, <<5, 1>>>>,
      <<<<-21, 454100, 0, 7113600, 0>>, <<5, 1>>>>,
      <<<<-21, 454130, 0, 7113680, 0>>, <<5, 1>>>>,
      <<<<-21, 454138, 0, 7113689, 0>>, <<5, 1>>>>,
      <<<<-21, 454138, 376516024, 7113689, 868973985>>, <<5, 1>>>>,
      <<<<-3, 700000, 0, -5000000, 0>>, <<5, 1>>>>,
      <<<<-3, 720000, 0, -4990000, 0>>, <<5, 1>>>>,
      <<<<-3, 728000, 0, -4988000, 0>>, <<5, 1>>>>,
      <<<<-3, 728500, 0, -4987100, 0>>, <<5, 1>>>>,
      <<<<-3, 728560, 0, -4987050, 0>>, <<5, 1>>>>,
      <<<<-3, 728564, 0, -4987043, 0>>, <<5, 1>>>>,
      <<<<-3, 728564, 485881662, -4987043, 693384508>>, <<5, 1>>>>,
      <<<<3, 100000, 0, 0, 0>>, <<2, 1>>>>,
      <<<<3, 100000, 0, 1100000, 0>>, <<6, 1>>>>,
      <<<<3, 100000, 0, 1200000, 0>>, <<6, 1>>>>,
      <<<<3, 160000, 0, 0, 0>>, <<2, 1>>>>,
      <<<<3, 160000, 0, 60000, 0>>, <<5, 1>>>>,
      <<<<3, 166000, 0, 0, 0>>, <<2, 1>>>>,
      <<<<3, 166000, 0, 2000, 0>>, <<4, 1>>>>,
      <<<<3, 166000, 0, 21000, 0>>, <<5, 1>>>>,
      <<<<3, 166020, 0, 0, 0>>, <<2, 1>>>>,
      <<<<3, 166020, 0, 10000, 0>>, <<5, 1>>>>,
      <<<<3, 166021, 0, 0, 0>>, <<2, 1>>>>,
      <<<<3, 166021, 443080539, 0, 0>>, <<2, 1>>>>,
      <<<<3, 170000, 0, 1100000, 0>>, <<6, 1>>>>,
      <<<<3, 171000, 0, 1106000, 0>>, <<6, 1>>>>,
      <<<<3, 171000, 0, 1106900, 0>>, <<6, 1>>>>,
      <<<<3, 171070, 0, 1106900, 0>>, <<6, 1>>>>,
      <<<<3, 171071, 0, 1106908, 0>>, <<6, 1>>>>,
      <<<<3, 171071, 263941312, 1106908, 854243142>>, <<6, 1>>>>,
      <<<<3, 300000, 0, 6600000, 0>>, <<5, 1>>>>,
      <<<<3, 300000, 0, 7900000, 0>>, <<4, 1>>>>,
      <<<<3, 330000, 0, 6650000, 0>>, <<5, 1>>>>,
      <<<<3, 332000, 0, 6655000, 0>>, <<5, 1>>>>,
      <<<<3, 332700, 0, 6655200, 0>>, <<5, 1>>>>,
      <<<<3, 332705, 0, 6655205, 0>>, <<5, 1>>>>,
      <<<<3, 332705, 178819808, 6655205, 483637093>>, <<5, 1>>>>,
      <<<<3, 390000, 0, 7990000, 0>>, <<4, 1>>>>,
      <<<<3, 396000, 0, 7991000, 0>>, <<4, 1>>>>,
      <<<<3, 396500, 0, 7991500, 0>>, <<4, 1>>>>,
      <<<<3, 396560, 0, 7991500, 0>>, <<4, 1>>>>,
      <<<<3, 396566, 0, 7991508, 0>>, <<4, 1>>>>,
      <<<<3, 396566, 945624795, 7991508, 542710041>>, <<4, 1>>>>,
      <<<<3, 400000, 0, -8900000, 0>>, <<4, 1>>>>,
      <<<<3, 400000, 0, 5400000, 0>>, <<5, 1>>>>,
      <<<<3, 400000, 0, 6500000, 0>>, <<5, 1>>>>,
      <<<<3, 400000, 0, 6700000, 0>>, <<5, 1>>>>,
      <<<<3, 400000, 0, 8100000, 0>>, <<4, 1>>>>,
      <<<<3, 402000, 0, 8102000, 0>>, <<4, 1>>>>,
      <<<<3, 402100, 0, 8102900, 0>>, <<4, 1>>>>,
      <<<<3, 402130, 0, 8102930, 0>>, <<4, 1>>>>,
      <<<<3, 402135, 0, 8102930, 0>>, <<4, 1>>>>,
      <<<<3, 402135, 992986685, 8102930, 577898574>>, <<4, 1>>>>,
      <<<<3, 440000, 0, -8890000, 0>>, <<4, 1>>>>,
      <<<<3, 441000, 0, -8884000, 0>>, <<4, 1>>>>,
      <<<<3, 441800, 0, -8883100, 0>>, <<4, 1>>>>,
      <<<<3, 441860, 0, -8883090, 0>>, <<4, 1>>>>,
      <<<<3, 441867, 0, -8883085, 0>>, <<4, 1>>>>,
      <<<<3, 441867, 784867201, -8883085, 44051695>>, <<4, 1>>>>,
      <<<<3, 450000, 0, 5410000, 0>>, <<5, 1>>>>,
      <<<<3, 452000, 0, 5411000, 0>>, <<5, 1>>>>,
      <<<<3, 452400, 0, 5411700, 0>>, <<5, 1>>>>,
      <<<<3, 452480, 0, 5411710, 0>>, <<5, 1>>>>,
      <<<<3, 452482, 0, 5411717, 0>>, <<5, 1>>>>,
      <<<<3, 452482, 532702627, 5411717, 176868899>>, <<5, 1>>>>,
      <<<<3, 490000, 0, 6700000, 0>>, <<5, 1>>>>,
      <<<<3, 494000, 0, 6707000, 0>>, <<5, 1>>>>,
      <<<<3, 494500, 0, 6707100, 0>>, <<5, 1>>>>,
      <<<<3, 494506, 0, 6707101, 0>>, <<5, 1>>>>,
      <<<<3, 494506, 613573481, 6707101, 340484722>>, <<5, 1>>>>,
      <<<<3, 499999, 999875264, 6206079, 587252155>>, <<5, 1>>>>,
      <<<<3, 500000, 0, -10000000, 0>>, <<2, 1>>>>,
      <<<<3, 500000, 0, -8900000, 0>>, <<4, 1>>>>,
      <<<<3, 500000, 0, -8880000, 0>>, <<4, 1>>>>,
      <<<<3, 500000, 0, -8200000, 0>>, <<4, 1>>>>,
      <<<<3, 500000, 0, -6900000, 0>>, <<5, 1>>>>,
      <<<<3, 500000, 0, 0, 0>>, <<2, 1>>>>,
      <<<<3, 500000, 0, 40000, 0>>, <<5, 1>>>>,
      <<<<3, 500000, 0, 800000, 0>>, <<6, 1>>>>,
      <<<<3, 500000, 0, 900000, 0>>, <<6, 1>>>>,
      <<<<3, 500000, 0, 940000, 0>>, <<6, 1>>>>,
      <<<<3, 500000, 0, 1940000, 0>>, <<6, 1>>>>,
      <<<<3, 500000, 0, 2940000, 0>>, <<6, 1>>>>,
      <<<<3, 500000, 0, 6100000, 0>>, <<5, 1>>>>,
      <<<<3, 500000, 0, 7000000, 0>>, <<5, 1>>>>,
      <<<<3, 500000, 0, 8500000, 0>>, <<4, 1>>>>,
      <<<<3, 500000, 0, 9200000, 0>>, <<4, 1>>>>,
      <<<<3, 500000, 0, 9329000, 0>>, <<3, 1>>>>,
      <<<<3, 500000, 0, 9350000, 0>>, <<3, 1>>>>,
      <<<<3, 500000, 0, 10000000, 0>>, <<2, 1>>>>,
      <<<<3, 520000, 0, 9260000, 0>>, <<3, 1>>>>,
      <<<<3, 525000, 0, 9261000, 0>>, <<3, 1>>>>,
      <<<<3, 525600, 0, 9261500, 0>>, <<3, 1>>>>,
      <<<<3, 525650, 0, 9261550, 0>>, <<3, 1>>>>,
      <<<<3, 525659, 0, 9261557, 0>>, <<3, 1>>>>,
      <<<<3, 525659, 88908492, 9261557, 323387034>>, <<3, 1>>>>,
      <<<<3, 530000, 0, 6190000, 0>>, <<5, 1>>>>,
      <<<<3, 531000, 0, 6195000, 0>>, <<5, 1>>>>,
      <<<<3, 531200, 0, 6195000, 0>>, <<5, 1>>>>,
      <<<<3, 531260, 0, 6195060, 0>>, <<5, 1>>>>,
      <<<<3, 531264, 0, 6195062, 0>>, <<5, 1>>>>,
      <<<<3, 531264, 232439999, 6195062, 910773194>>, <<5, 1>>>>,
      <<<<3, 590000, 0, 7090000, 0>>, <<5, 1>>>>,
      <<<<3, 597000, 0, 7098000, 0>>, <<5, 1>>>>,
      <<<<3, 597800, 0, 7098500, 0>>, <<5, 1>>>>,
      <<<<3, 597810, 0, 7098540, 0>>, <<5, 1>>>>,
      <<<<3, 597812, 0, 7098548, 0>>, <<5, 1>>>>,
      <<<<3, 597812, 110083487, 7098548, 748858588>>, <<5, 1>>>>,
      <<<<3, 599999, 0, 899999, 0>>, <<6, 1>>>>,
      <<<<3, 600000, 0, 6500000, 0>>, <<5, 1>>>>,
      <<<<3, 600000, 0, 8000000, 0>>, <<4, 1>>>>,
      <<<<3, 600000, 0, 8040000, 0>>, <<4, 1>>>>,
      <<<<3, 600000, 0, 8047000, 0>>, <<4, 1>>>>,
      <<<<3, 600000, 0, 8600000, 0>>, <<4, 1>>>>,
      <<<<3, 600600, 0, 8047200, 0>>, <<4, 1>>>>,
      <<<<3, 600650, 0, 8047210, 0>>, <<4, 1>>>>,
      <<<<3, 600652, 0, 8047218, 0>>, <<4, 1>>>>,
      <<<<3, 600652, 412789192, 8047218, 533903007>>, <<4, 1>>>>,
      <<<<3, 630000, 0, 8690000, 0>>, <<4, 1>>>>,
      <<<<3, 633000, 0, 8698000, 0>>, <<4, 1>>>>,
      <<<<3, 633300, 0, 8698500, 0>>, <<4, 1>>>>,
      <<<<3, 633340, 0, 8698570, 0>>, <<4, 1>>>>,
      <<<<3, 633347, 0, 8698579, 0>>, <<4, 1>>>>,
      <<<<3, 633347, 144822932, 8698579, 561855174>>, <<4, 1>>>>,
      <<<<3, 700000, 0, 7900000, 0>>, <<4, 1>>>>,
      <<<<3, 700000, 0, 7990000, 0>>, <<4, 1>>>>,
      <<<<3, 700000, 0, 9300000, 0>>, <<3, 1>>>>,
      <<<<3, 706000, 0, 7999000, 0>>, <<4, 1>>>>,
      <<<<3, 706600, 0, 7999200, 0>>, <<4, 1>>>>,
      <<<<3, 706630, 0, 7999230, 0>>, <<4, 1>>>>,
      <<<<3, 706636, 0, 7999233, 0>>, <<4, 1>>>>,
      <<<<3, 706636, 495752239, 7999233, 637215868>>, <<4, 1>>>>,
      <<<<3, 800000, 0, 1100000, 0>>, <<6, 1>>>>,
      <<<<3, 820000, 0, 1100000, 0>>, <<6, 1>>>>,
      <<<<3, 828000, 0, 1106000, 0>>, <<6, 1>>>>,
      <<<<3, 828900, 0, 1106900, 0>>, <<6, 1>>>>,
      <<<<3, 828920, 0, 1106900, 0>>, <<6, 1>>>>,
      <<<<3, 828928, 0, 1106908, 0>>, <<6, 1>>>>,
      <<<<3, 833978, 0, 0, 0>>, <<2, 1>>>>,
      <<<<3, 900000, 0, 0, 0>>, <<2, 1>>>>,
      <<<<9, 100000, 0, 1100000, 0>>, <<6, 1>>>>,
      <<<<9, 100000, 0, 6200000, 0>>, <<5, 1>>>>,
      <<<<9, 100000, 0, 6700000, 0>>, <<5, 1>>>>,
      <<<<9, 120000, 0, 6220000, 0>>, <<5, 1>>>>,
      <<<<9, 126000, 0, 6222000, 0>>, <<5, 1>>>>,
      <<<<9, 126000, 0, 6222300, 0>>, <<5, 1>>>>,
      <<<<9, 126040, 0, 6222330, 0>>, <<5, 1>>>>,
      <<<<9, 126049, 0, 6222336, 0>>, <<5, 1>>>>,
      <<<<9, 126049, 970712682, 6222336, 335316707>>, <<5, 1>>>>,
      <<<<9, 170000, 0, 1100000, 0>>, <<6, 1>>>>,
      <<<<9, 171000, 0, 1106000, 0>>, <<6, 1>>>>,
      <<<<9, 171000, 0, 1106900, 0>>, <<6, 1>>>>,
      <<<<9, 171070, 0, 1106900, 0>>, <<6, 1>>>>,
      <<<<9, 171071, 0, 1106908, 0>>, <<6, 1>>>>,
      <<<<9, 171071, 263392623, 1106908, 854248135>>, <<6, 1>>>>,
      <<<<9, 171071, 263941312, 1106908, 854243142>>, <<6, 1>>>>,
      <<<<9, 190000, 0, 6710000, 0>>, <<5, 1>>>>,
      <<<<9, 198000, 0, 6719000, 0>>, <<5, 1>>>>,
      <<<<9, 198100, 0, 6719700, 0>>, <<5, 1>>>>,
      <<<<9, 198100, 0, 6719720, 0>>, <<5, 1>>>>,
      <<<<9, 198102, 0, 6719723, 0>>, <<5, 1>>>>,
      <<<<9, 198102, 993569468, 6719723, 57492919>>, <<5, 1>>>>,
      <<<<9, 300000, 0, 6700000, 0>>, <<5, 1>>>>,
      <<<<9, 300000, 0, 7100000, 0>>, <<5, 1>>>>,
      <<<<9, 304000, 0, 7103000, 0>>, <<5, 1>>>>,
      <<<<9, 304400, 0, 7103000, 0>>, <<5, 1>>>>,
      <<<<9, 304440, 0, 7103040, 0>>, <<5, 1>>>>,
      <<<<9, 304442, 0, 7103041, 0>>, <<5, 1>>>>,
      <<<<9, 304442, 212981761, 7103041, 530224798>>, <<5, 1>>>>,
      <<<<9, 390000, 0, 6700000, 0>>, <<5, 1>>>>,
      <<<<9, 390000, 0, 6708000, 0>>, <<5, 1>>>>,
      <<<<9, 390100, 0, 6708700, 0>>, <<5, 1>>>>,
      <<<<9, 390140, 0, 6708760, 0>>, <<5, 1>>>>,
      <<<<9, 390143, 0, 6708766, 0>>, <<5, 1>>>>,
      <<<<9, 390143, 728661696, 6708766, 199883387>>, <<5, 1>>>>,
      <<<<9, 450000, 0, 8500000, 0>>, <<4, 1>>>>,
      <<<<9, 500000, 0, 8500000, 0>>, <<4, 1>>>>,
      <<<<9, 600000, 0, -100000, 0>>, <<5, 1>>>>,
      <<<<9, 600000, 0, 0, 0>>, <<2, 1>>>>,
      <<<<9, 600000, 0, 6600000, 0>>, <<5, 1>>>>,
      <<<<9, 610000, 0, -10000, 0>>, <<5, 1>>>>,
      <<<<9, 610000, 0, 0, 0>>, <<2, 1>>>>,
      <<<<9, 611000, 0, -1000, 0>>, <<4, 1>>>>,
      <<<<9, 611000, 0, 0, 0>>, <<2, 1>>>>,
      <<<<9, 611200, 0, -100, 0>>, <<4, 1>>>>,
      <<<<9, 611200, 0, 0, 0>>, <<2, 1>>>>,
      <<<<9, 611280, 0, -10, 0>>, <<3, 1>>>>,
      <<<<9, 611280, 0, -1, 0>>, <<3, 1>>>>,
      <<<<9, 611280, 0, 0, 0>>, <<2, 1>>>>,
      <<<<9, 611280, 650891400, -1, 988945300>>, <<2, 1>>>>,
      <<<<9, 611280, 650891400, 0, 0>>, <<2, 1>>>>,
      <<<<9, 611280, 650891400, 0, 11054698>>, <<2, 1>>>>,
      <<<<9, 660000, 0, 6650000, 0>>, <<5, 1>>>>,
      <<<<9, 667000, 0, 6655000, 0>>, <<5, 1>>>>,
      <<<<9, 667200, 0, 6655200, 0>>, <<5, 1>>>>,
      <<<<9, 667290, 0, 6655200, 0>>, <<5, 1>>>>,
      <<<<9, 667294, 0, 6655205, 0>>, <<5, 1>>>>,
      <<<<9, 667294, 765385010, 6655205, 481104743>>, <<5, 1>>>>,
      <<<<9, 899999, 999599999, 1000000, 0>>, <<6, 1>>>>,
      <<<<15, 300000, 0, 6600000, 0>>, <<5, 1>>>>,
      <<<<15, 300000, 0, 8600000, 0>>, <<4, 1>>>>,
      <<<<15, 330000, 0, 6650000, 0>>, <<5, 1>>>>,
      <<<<15, 332000, 0, 6655000, 0>>, <<5, 1>>>>,
      <<<<15, 332700, 0, 6655200, 0>>, <<5, 1>>>>,
      <<<<15, 332705, 0, 6655205, 0>>, <<5, 1>>>>,
      <<<<15, 332705, 178875548, 6655205, 483634563>>, <<5, 1>>>>,
      <<<<15, 360000, 0, 8690000, 0>>, <<4, 1>>>>,
      <<<<15, 364000, 0, 8698000, 0>>, <<4, 1>>>>,
      <<<<15, 364400, 0, 8698800, 0>>, <<4, 1>>>>,
      <<<<15, 364400, 0, 8698809, 0>>, <<4, 1>>>>,
      <<<<15, 364400, 263254184, 8698809, 453694833>>, <<4, 1>>>>,
      <<<<15, 600000, 0, 7900000, 0>>, <<4, 1>>>>,
      <<<<15, 600000, 0, 8600000, 0>>, <<4, 1>>>>,
      <<<<15, 630000, 0, 8690000, 0>>, <<4, 1>>>>,
      <<<<15, 635000, 0, 8698000, 0>>, <<4, 1>>>>,
      <<<<15, 635500, 0, 8698800, 0>>, <<4, 1>>>>,
      <<<<15, 635570, 0, 8698800, 0>>, <<4, 1>>>>,
      <<<<15, 635577, 0, 8698807, 0>>, <<4, 1>>>>,
      <<<<15, 635577, 212694844, 8698807, 135703355>>, <<4, 1>>>>,
      <<<<15, 670000, 0, 7990000, 0>>, <<4, 1>>>>,
      <<<<15, 672000, 0, 7996000, 0>>, <<4, 1>>>>,
      <<<<15, 672200, 0, 7996000, 0>>, <<4, 1>>>>,
      <<<<15, 672270, 0, 7996080, 0>>, <<4, 1>>>>,
      <<<<15, 672275, 0, 7996086, 0>>, <<4, 1>>>>,
      <<<<15, 672275, 51070391, 7996086, 925265260>>, <<4, 1>>>>,
      <<<<15, 700000, 0, 800000, 0>>, <<6, 1>>>>,
      <<<<15, 770000, 0, 880000, 0>>, <<6, 1>>>>,
      <<<<15, 775000, 0, 885000, 0>>, <<6, 1>>>>,
      <<<<15, 775500, 0, 885100, 0>>, <<6, 1>>>>,
      <<<<15, 775580, 0, 885120, 0>>, <<6, 1>>>>,
      <<<<15, 775582, 0, 885123, 0>>, <<6, 1>>>>,
      <<<<15, 775582, 671932305, 885123, 932895091>>, <<6, 1>>>>,
      <<<<15, 800000, 0, 0, 0>>, <<2, 1>>>>,
      <<<<15, 800000, 0, 1200000, 0>>, <<6, 1>>>>,
      <<<<21, 300000, 0, 800000, 0>>, <<6, 1>>>>,
      <<<<21, 380000, 0, 880000, 0>>, <<6, 1>>>>,
      <<<<21, 389000, 0, 884000, 0>>, <<6, 1>>>>,
      <<<<21, 389700, 0, 884400, 0>>, <<6, 1>>>>,
      <<<<21, 389790, 0, 884430, 0>>, <<6, 1>>>>,
      <<<<21, 389795, 0, 884431, 0>>, <<6, 1>>>>,
      <<<<21, 389795, 397922159, 884431, 706491422>>, <<6, 1>>>>,
      <<<<21, 400000, 0, -8900000, 0>>, <<4, 1>>>>,
      <<<<21, 400000, 0, 7900000, 0>>, <<4, 1>>>>,
      <<<<21, 460000, 0, 7980000, 0>>, <<4, 1>>>>,
      <<<<21, 465000, 0, 7989000, 0>>, <<4, 1>>>>,
      <<<<21, 465500, 0, 7989200, 0>>, <<4, 1>>>>,
      <<<<21, 465510, 0, 7989200, 0>>, <<4, 1>>>>,
      <<<<21, 465510, 0, 7989207, 0>>, <<4, 1>>>>,
      <<<<21, 465510, 796316993, 7989207, 601799755>>, <<4, 1>>>>,
      <<<<21, 480000, 0, -8890000, 0>>, <<4, 1>>>>,
      <<<<21, 480000, 0, -8882000, 0>>, <<4, 1>>>>,
      <<<<21, 480600, 0, -8881800, 0>>, <<4, 1>>>>,
      <<<<21, 480610, 0, -8881760, 0>>, <<4, 1>>>>,
      <<<<21, 480615, 0, -8881753, 0>>, <<4, 1>>>>,
      <<<<21, 480615, 206295922, -8881753, 27196047>>, <<4, 1>>>>,
      <<<<21, 480615, 235071607, -8881755, 353206515>>, <<4, 1>>>>,
      <<<<21, 500000, 0, 8500000, 0>>, <<4, 1>>>>,
      <<<<27, 300000, 0, 8600000, 0>>, <<4, 1>>>>,
      <<<<27, 360000, 0, 8690000, 0>>, <<4, 1>>>>,
      <<<<27, 364000, 0, 8698000, 0>>, <<4, 1>>>>,
      <<<<27, 364400, 0, 8698800, 0>>, <<4, 1>>>>,
      <<<<27, 364400, 0, 8698809, 0>>, <<4, 1>>>>,
      <<<<27, 364400, 263254184, 8698809, 453694833>>, <<4, 1>>>>,
      <<<<27, 500000, 0, 9300000, 0>>, <<3, 1>>>>,
      <<<<27, 530000, 0, 9320000, 0>>, <<3, 1>>>>,
      <<<<27, 534000, 0, 9329000, 0>>, <<3, 1>>>>,
      <<<<27, 534900, 0, 9329000, 0>>, <<3, 1>>>>,
      <<<<27, 534990, 0, 9329000, 0>>, <<3, 1>>>>,
      <<<<27, 534994, 0, 9329005, 0>>, <<3, 1>>>>,
      <<<<27, 534994, 538845233, 9329007, 412193695>>, <<3, 1>>>>,
      <<<<27, 534994, 626007161, 9329005, 739884000>>, <<3, 1>>>>,
      <<<<27, 534994, 655061136, 9329005, 182447435>>, <<3, 1>>>>,
      <<<<33, 550000, 0, 8500000, 0>>, <<4, 1>>>>,
      <<<<39, 300000, 0, 8600000, 0>>, <<4, 1>>>>,
      <<<<39, 370000, 0, 8690000, 0>>, <<4, 1>>>>,
      <<<<39, 375000, 0, 8697000, 0>>, <<4, 1>>>>,
      <<<<39, 375600, 0, 8697600, 0>>, <<4, 1>>>>,
      <<<<39, 375660, 0, 8697690, 0>>, <<4, 1>>>>,
      <<<<39, 375666, 0, 8697698, 0>>, <<4, 1>>>>,
      <<<<39, 375666, 891992380, 8697698, 534638734>>, <<4, 1>>>>,
      <<<<39, 500000, 0, 8300000, 0>>, <<4, 1>>>>,
      <<<<39, 580000, 0, 8320000, 0>>, <<4, 1>>>>,
      <<<<39, 583000, 0, 8325000, 0>>, <<4, 1>>>>,
      <<<<39, 583700, 0, 8325600, 0>>, <<4, 1>>>>,
      <<<<39, 583750, 0, 8325650, 0>>, <<4, 1>>>>,
      <<<<39, 583751, 0, 8325654, 0>>, <<4, 1>>>>,
      <<<<39, 583751, 310468802, 8325654, 604651539>>, <<4, 1>>>>,
      <<<<45, 400000, 0, 8300000, 0>>, <<4, 1>>>>,
      <<<<45, 410000, 0, 8320000, 0>>, <<4, 1>>>>,
      <<<<45, 413000, 0, 8325000, 0>>, <<4, 1>>>>,
      <<<<45, 413300, 0, 8325700, 0>>, <<4, 1>>>>,
      <<<<45, 413360, 0, 8325790, 0>>, <<4, 1>>>>,
      <<<<45, 413362, 0, 8325798, 0>>, <<4, 1>>>>,
      <<<<45, 413362, 961728047, 8325798, 247025638>>, <<4, 1>>>>,
      <<<<51, 481383, 23235150, -8926393, 348667977>>, <<4, 1>>>>,
      <<<<51, 481575, 135414491, -8937554, 572970781>>, <<4, 1>>>>,
      <<<<51, 489105, 829522348, 9372843, 557596439>>, <<3, 1>>>>,
      <<<<51, 489299, 762864040, 9384006, 321710985>>, <<3, 1>>>>,
      <<<<75, 500000, 0, 9200000, 0>>, <<4, 1>>>>,
      <<<<75, 520000, 0, 9270000, 0>>, <<3, 1>>>>,
      <<<<75, 525000, 0, 9272000, 0>>, <<3, 1>>>>,
      <<<<75, 525200, 0, 9272700, 0>>, <<3, 1>>>>,
      <<<<75, 525270, 0, 9272710, 0>>, <<3, 1>>>>,
      <<<<75, 525272, 0, 9272713, 0>>, <<3, 1>>>>,
      <<<<75, 525272, 46018644, 9272713, 603569351>>, <<3, 1>>>>,
      <<<<99, 500000, 0, 9300000, 0>>, <<3, 1>>>>,
      <<<<99, 510000, 0, 9320000, 0>>, <<3, 1>>>>,
      <<<<99, 511000, 0, 9328000, 0>>, <<3, 1>>>>,
      <<<<99, 511600, 0, 9328100, 0>>, <<3, 1>>>>,
      <<<<99, 511660, 0, 9328180, 0>>, <<3, 1>>>>,
      <<<<99, 511669, 0, 9328183, 0>>, <<3, 1>>>>,
      <<<<99, 511669, 714526872, 9328183, 949066419>>, <<3, 1>>>>,
      <<<<105, 300000, 0, 100000, 0>>, <<5, 1>>>>,
      <<<<105, 360000, 0, 140000, 0>>, <<5, 1>>>>,
      <<<<105, 368000, 0, 149000, 0>>, <<5, 1>>>>,
      <<<<105, 368700, 0, 149400, 0>>, <<5, 1>>>>,
      <<<<105, 368700, 0, 149470, 0>>, <<5, 1>>>>,
      <<<<105, 368700, 0, 149479, 0>>, <<5, 1>>>>,
      <<<<105, 368700, 272373037, 149479, 866291019>>, <<5, 1>>>>,
      <<<<123, 400000, 0, 9200000, 0>>, <<4, 1>>>>,
      <<<<123, 460000, 0, 9270000, 0>>, <<3, 1>>>>,
      <<<<123, 462000, 0, 9273000, 0>>, <<3, 1>>>>,
      <<<<123, 462100, 0, 9273200, 0>>, <<3, 1>>>>,
      <<<<123, 462100, 0, 9273260, 0>>, <<3, 1>>>>,
      <<<<123, 462101, 0, 9273261, 0>>, <<3, 1>>>>,
      <<<<123, 462101, 336665538, 9273261, 908855400>>, <<3, 1>>>>,
      <<<<141, 300000, 0, 3900000, 0>>, <<6, 1>>>>,
      <<<<141, 370000, 0, 3940000, 0>>, <<5, 1>>>>,
      <<<<141, 377000, 0, 3948000, 0>>, <<5, 1>>>>,
      <<<<141, 377800, 0, 3948800, 0>>, <<5, 1>>>>,
      <<<<141, 377850, 0, 3948870, 0>>, <<5, 1>>>>,
      <<<<141, 377855, 0, 3948874, 0>>, <<5, 1>>>>,
      <<<<141, 377855, 775951768, 3948874, 392162377>>, <<5, 1>>>>,
      <<<<153, 300000, 0, -3800000, 0>>, <<6, 1>>>>,
      <<<<153, 330000, 0, -3760000, 0>>, <<6, 1>>>>,
      <<<<153, 330000, 0, -3750000, 0>>, <<6, 1>>>>,
      <<<<153, 334000, 0, -3765000, 0>>, <<6, 1>>>>,
      <<<<153, 334000, 0, -3750000, 0>>, <<6, 1>>>>,
      <<<<153, 334300, 0, -3749100, 0>>, <<6, 1>>>>,
      <<<<153, 334350, 0, -3749100, 0>>, <<6, 1>>>>,
      <<<<153, 334360, 0, -3749060, 0>>, <<6, 1>>>>,
      <<<<153, 334368, 0, -3749052, 0>>, <<6, 1>>>>,
      <<<<153, 334368, 633648097, -3749052, 345385009>>, <<6, 1>>>>,
      <<<<177, 500000, 0, 1100000, 0>>, <<6, 1>>>>,
      <<<<177, 500000, 0, 1105000, 0>>, <<6, 1>>>>,
      <<<<177, 500000, 0, 1105400, 0>>, <<6, 1>>>>,
      <<<<177, 500000, 0, 1105410, 0>>, <<6, 1>>>>,
      <<<<177, 500000, 0, 1105412, 0>>, <<6, 1>>>>,
      <<<<177, 500000, 0, 1105412, 491301078>>, <<6, 1>>>>,
      <<<<177, 833000, 0, 1000000, 0>>, <<6, 1>>>>
    }

\* The passes of the loop of PolarStereographic.ConvertToGeodetic for the
\* arguments of PSInverseEntries.
PolarLatitudeEntries ==
    {
      <<<<0, 2000000, 0, 1300000, 0>>, <<3>>>>,
      <<<<0, 2000000, 0, 1400000, 0>>, <<3>>>>,
      <<<<0, 2000000, 0, 1600000, 0>>, <<3>>>>,
      <<<<0, 2000000, 0, 1660000, 0>>, <<3>>>>,
      <<<<0, 2000000, 0, 1666000, 0>>, <<3>>>>,
      <<<<0, 2000000, 0, 1666800, 0>>, <<3>>>>,
      <<<<0, 2000000, 0, 1666850, 0>>, <<3>>>>,
      <<<<0, 2000000, 0, 1666855, 0>>, <<3>>>>,
      <<<<0, 2000000, 0, 1666855, 514553786>>, <<3>>>>,
      <<<<0, 2000000, 0, 2200000, 0>>, <<3>>>>,
      <<<<0, 2000000, 0, 2220000, 0>>, <<3>>>>,
      <<<<0, 2000000, 0, 2222000, 0>>, <<3>>>>,
      <<<<0, 2000000, 0, 2222060, 0>>, <<3>>>>,
      <<<<0, 2000000, 0, 2222069, 0>>, <<3>>>>,
      <<<<0, 2000000, 0, 2222069, 268928818>>, <<3>>>>,
      <<<<0, 2000000, 0, 2500000, 0>>, <<3>>>>,
      <<<<0, 2010000, 0, 1310000, 0>>, <<3>>>>,
      <<<<0, 2010000, 0, 1330000, 0>>, <<3>>>>,
      <<<<0, 2010000, 0, 2510000, 0>>, <<3>>>>,
      <<<<0, 2010000, 0, 2530000, 0>>, <<3>>>>,
      <<<<0, 2030000, 0, 1310000, 0>>, <<3>>>>,
      <<<<0, 2030000, 0, 1330000, 0>>, <<3>>>>,
      <<<<0, 2030000, 0, 2510000, 0>>, <<3>>>>,
      <<<<0, 2030000, 0, 2530000, 0>>, <<3>>>>,
      <<<<0, 2090000, 0, 1450000, 0>>, <<3>>>>,
      <<<<0, 2090000, 0, 1460000, 0>>, <<3>>>>,
      <<<<0, 2096000, 0, 1452000, 0>>, <<3>>>>,
      <<<<0, 2096400, 0, 1452900, 0>>, <<3>>>>,
      <<<<0, 2096450, 0, 1452980, 0>>, <<3>>>>,
      <<<<0, 2096454, 0, 1452981, 0>>, <<3>>>>,
      <<<<0, 2096454, 163785228, 1452981, 254498402>>, <<3>>>>,
      <<<<0, 2300000, 0, 1400000, 0>>, <<3>>>>,
      <<<<0, 2330000, 0, 1420000, 0>>, <<3>>>>,
      <<<<0, 2333000, 0, 1422000, 0>>, <<3>>>>,
      <<<<0, 2333300, 0, 1422500, 0>>, <<3>>>>,
      <<<<0, 2333360, 0, 1422590, 0>>, <<3>>>>,
      <<<<0, 2333362, 0, 1422598, 0>>, <<3>>>>,
      <<<<0, 2333362, 738677558, 1422598, 799260161>>, <<3>>>>,
      <<<<0, 2333363, 573550879, 1422597, 353217151>>, <<3>>>>,
      <<<<0, 2333363, 851841988, 1422596, 871202811>>, <<3>>>>,
      <<<<0, 2400000, 0, 1600000, 0>>, <<3>>>>,
      <<<<0, 2450000, 0, 1610000, 0>>, <<3>>>>,
      <<<<0, 2459000, 0, 1614000, 0>>, <<3>>>>,
      <<<<0, 2459500, 0, 1614300, 0>>, <<3>>>>,
      <<<<0, 2459590, 0, 1614350, 0>>, <<3>>>>,
      <<<<0, 2459592, 0, 1614356, 0>>, <<3>>>>,
      <<<<0, 2459592, 69801384, 1614356, 463737655>>, <<3>>>>,
      <<<<0, 2460000, 0, 1600000, 0>>, <<3>>>>,
      <<<<0, 2468000, 0, 1607000, 0>>, <<3>>>>,
      <<<<0, 2468100, 0, 1607200, 0>>, <<3>>>>,
      <<<<0, 2468110, 0, 1607200, 0>>, <<3>>>>,
      <<<<0, 2468115, 0, 1607204, 0>>, <<3>>>>,
      <<<<0, 2468115, 50934650, 1607204, 833412200>>, <<3>>>>,
      <<<<0, 2470000, 0, 1600000, 0>>, <<3>>>>,
      <<<<0, 2476000, 0, 1600000, 0>>, <<3>>>>,
      <<<<0, 2476600, 0, 1600000, 0>>, <<3>>>>,
      <<<<0, 2476630, 0, 1600050, 0>>, <<3>>>>,
      <<<<0, 2476639, 0, 1600051, 0>>, <<3>>>>,
      <<<<0, 2476639, 570285758, 1600051, 912368722>>, <<3>>>>,
      <<<<0, 2625615, 438706375, 2361199, 241946311>>, <<3>>>>,
      <<<<0, 2656609, 574266192, 2115777, 983734628>>, <<3>>>>,
      <<<<0, 2703884, 116327, 1837495, 574130917>>, <<3>>>>,
      <<<<1, 987709, 604081581, 2584446, 132581572>>, <<3>>>>,
      <<<<1, 987710, 88724697, 2584445, 852772738>>, <<3>>>>,
      <<<<1, 1700000, 0, 1800000, 0>>, <<3>>>>,
      <<<<1, 1760000, 0, 1860000, 0>>, <<3>>>>,
      <<<<1, 1760100, 0, 1860100, 0>>, <<3>>>>,
      <<<<1, 1760190, 0, 1860150, 0>>, <<3>>>>,
      <<<<1, 1760197, 0, 1860151, 0>>, <<3>>>>,
      <<<<1, 1760197, 706173977, 1860151, 435617605>>, <<3>>>>,
      <<<<1, 1900000, 0, 800000, 0>>, <<3>>>>,
      <<<<1, 1900000, 0, 2000000, 0>>, <<3>>>>,
      <<<<1, 1900000, 0, 3100000, 0>>, <<3>>>>,
      <<<<1, 1910000, 0, 810000, 0>>, <<3>>>>,
      <<<<1, 1910000, 0, 830000, 0>>, <<3>>>>,
      <<<<1, 1910000, 0, 2010000, 0>>, <<3>>>>,
      <<<<1, 1910000, 0, 2030000, 0>>, <<3>>>>,
      <<<<1, 1910000, 0, 3110000, 0>>, <<3>>>>,
      <<<<1, 1910000, 0, 3130000, 0>>, <<3>>>>,
      <<<<1, 1930000, 0, 810000, 0>>, <<3>>>>,
      <<<<1, 1930000, 0, 830000, 0>>, <<3>>>>,
      <<<<1, 1930000, 0, 2010000, 0>>, <<2>>>>,
      <<<<1, 1930000, 0, 2030000, 0>>, <<2>>>>,
      <<<<1, 1930000, 0, 3110000, 0>>, <<3>>>>,
      <<<<1, 1930000, 0, 3130000, 0>>, <<3>>>>,
      <<<<1, 2000000, 0, 2500000, 0>>, <<3>>>>,
      <<<<1, 2000000, 0, 3112951, 136954905>>, <<3>>>>,
      <<<<1, 2090000, 0, 2540000, 0>>, <<3>>>>,
      <<<<1, 2096000, 0, 2547000, 0>>, <<3>>>>,
      <<<<1, 2096400, 0, 2547000, 0>>, <<3>>>>,
      <<<<1, 2096450, 0, 2547010, 0>>, <<3>>>>,
      <<<<1, 2096454, 0, 2547018, 0>>, <<3>>>>,
      <<<<1, 2096454, 163785228, 2547018, 745501597>>, <<3>>>>,
      <<<<1, 2300000, 0, 3000000, 0>>, <<3>>>>,
      <<<<1, 2380000, 0, 3040000, 0>>, <<3>>>>,
      <<<<1, 2380000, 0, 3045000, 0>>, <<3>>>>,
      <<<<1, 2380600, 0, 3045800, 0>>, <<3>>>>,
      <<<<1, 2380650, 0, 3045820, 0>>, <<3>>>>,
      <<<<1, 2380650, 0, 3045829, 0>>, <<3>>>>,
      <<<<1, 2380650, 942348962, 3045829, 868797898>>, <<3>>>>,
      <<<<1, 2380651, 516119075, 3045831, 445218327>>, <<3>>>>,
      <<<<1, 2800000, 0, 2600000, 0>>, <<3>>>>,
      <<<<1, 2800000, 0, 2670000, 0>>, <<3>>>>,
      <<<<1, 2809000, 0, 2679000, 0>>, <<3>>>>,
      <<<<1, 2809700, 0, 2679400, 0>>, <<3>>>>,
      <<<<1, 2809740, 0, 2679450, 0>>, <<3>>>>,
      <<<<1, 2809748, 0, 2679459, 0>>, <<3>>>>,
      <<<<1, 2809748, 50967556, 2679459, 290913397>>, <<3>>>>,
      <<<<1, 2810000, 0, 2680000, 0>>, <<3>>>>,
      <<<<1, 2818000, 0, 2686000, 0>>, <<3>>>>,
      <<<<1, 2818300, 0, 2686600, 0>>, <<3>>>>,
      <<<<1, 2818310, 0, 2686640, 0>>, <<3>>>>,
      <<<<1, 2818310, 0, 2686643, 0>>, <<3>>>>,
      <<<<1, 2818310, 354394847, 2686643, 916561266>>, <<3>>>>
    }

\* <<inverse flattening, scale factor>>: the passes after which the loop of
\* MakePolarStereographicScaleFactor is within its tolerance (-1: never) and
\* skPlus1 when the loop ends.
ScaleFactorSolveEntries ==
    {
      <<<<0, 1000000000, 0, 994000000>>, <<1, 0, 1000000000>>>>,
      <<<<250, 0, 0, 994000000>>, <<4, 0, 987998847>>>>,
      <<<<250, 0, 3, 0>>, <<22, 4, 654087827>>>>,
      <<<<250, 769000000, 2, 790000000>>, <<-1, 4, 318101572>>>>,
      <<<<252, 226000000, 2, 943000000>>, <<-1, 4, 566600694>>>>,
      <<<<269, 196000000, 2, 813000000>>, <<-1, 4, 372726045>>>>,
      <<<<294, 978698200, 0, 994000000>>, <<4, 0, 987999024>>>>,
      <<<<298, 257223563, 0, 100000000>>, <<6, -1, 197834383>>>>,
      <<<<298, 257223563, 0, 500000000>>, <<0, 0, 0>>>>,
      <<<<298, 257223563, 0, 750000000>>, <<7, 0, 498735103>>>>,
      <<<<298, 257223563, 0, 994000000>>, <<4, 0, 987999035>>>>,
      <<<<298, 257223563, 1, 0>>, <<1, 1, 0>>>>,
      <<<<298, 257223563, 1, 1000>>, <<2, 1, 1999>>>>,
      <<<<298, 257223563, 3, 0>>, <<20, 4, 705368736>>>>,
      <<<<350, 0, 0, 100000000>>, <<6, -1, 198153656>>>>,
      <<<<350, 0, 0, 994000000>>, <<4, 0, 987999178>>>>
    }

\* <<semi-major axis, inverse flattening, scale factor>>: polarDeltaNorthing.
PolarDeltaEntries ==
    {
      <<<<6378137, 0, 250, 0, 0, 994000000>>, <<12755443, 969481248>>>>,
      <<<<6378137, 0, 298, 257223563, 0, 100000000>>, <<11572090, 143844500>>>>,
      <<<<6378137, 0, 298, 257223563, 0, 500000000>>, <<6441918, 370000000>>>>,
      <<<<6378137, 0, 298, 257223563, 0, 750000000>>, <<9630552, 74879257>>>>,
      <<<<6378137, 0, 298, 257223563, 0, 994000000>>, <<12763691, 683239977>>>>,
      <<<<6378137, 0, 298, 257223563, 1, 0>>, <<12840736, 99839009>>>>,
      <<<<6378137, 0, 350, 0, 0, 100000000>>, <<11575548, 599482569>>>>,
      <<<<6378137, 0, 350, 0, 0, 994000000>>, <<12770013, 239076096>>>>,
      <<<<6378206, 400000000, 294, 978698200, 0, 994000000>>, <<12763355, 468864925>>>>
    }

\* The points converted: <<latitude, longitude>> in degrees.
GeodeticSamples ==
    {
      <<<<33, 636700000>>, <<-85, 571940000>>>>,
      <<<<0, 0>>, <<0, 0>>>>,
      <<<<48, 856600000>>, <<2, 352200000>>>>,
      <<<<-34, 131200000>>, <<151, 209300000>>>>,
      <<<<35, 676200000>>, <<139, 650300000>>>>,
      <<<<-23, 93200000>>, <<-44, 827100000>>>>,
      <<<<64, 146600000>>, <<-22, 57400000>>>>,
      <<<<-55, 198100000>>, <<-69, 697000000>>>>,
      <<<<1, 352100000>>, <<103, 819800000>>>>,
      <<<<8, 0>>, <<20, 0>>>>,
      <<<<7, 999900000>>, <<17, 500000000>>>>,
      <<<<72, 0>>, <<20, 0>>>>,
      <<<<71, 999900000>>, <<20, 0>>>>,
      <<<<-1, 999999990>>, <<10, 0>>>>,
      <<<<-1, 999999900>>, <<10, 0>>>>,
      <<<<0, 100>>, <<10, 0>>>>,
      <<<<10, 0>>, <<6, 0>>>>,
      <<<<10, 0>>, <<5, 999999995>>>>,
      <<<<10, 0>>, <<180, 0>>>>,
      <<<<10, 0>>, <<-180, 0>>>>,
      <<<<10, 0>>, <<179, 999999999>>>>,
      <<<<10, 0>>, <<360, 0>>>>,
      <<<<10, 0>>, <<270, 0>>>>,
      <<<<-45, 0>>, <<359, 900000000>>>>,
      <<<<56, 0>>, <<2, 999999998>>>>,
      <<<<56, 0>>, <<3, 0>>>>,
      <<<<60, 500000000>>, <<2, 900000000>>>>,
      <<<<60, 500000000>>, <<3, 500000000>>>>,
      <<<<60, 500000000>>, <<7, 0>>>>,
      <<<<63, 999000000>>, <<5, 0>>>>,
      <<<<55, 900000000>>, <<3, 500000000>>>>,
      <<<<78, 300000000>>, <<8, 900000000>>>>,
      <<<<78, 300000000>>, <<9, 0>>>>,
      <<<<78, 300000000>>, <<20, 999000000>>>>,
      <<<<78, 300000000>>, <<21, 0>>>>,
      <<<<78, 300000000>>, <<33, 500000000>>>>,
      <<<<75, 0>>, <<41, 900000000>>>>,
      <<<<75, 0>>, <<42, 0>>>>,
      <<<<72, 500000000>>, <<6, 0>>>>,
      <<<<-80, 0>>, <<0, 0>>>>,
      <<<<-81, 999995000>>, <<20, 0>>>>,
      <<<<84, 0>>, <<30, 0>>>>,
      <<<<84, 5000>>, <<30, 0>>>>,
      <<<<83, 999900000>>, <<100, 0>>>>,
      <<<<84, 20000>>, <<30, 0>>>>,
      <<<<84, 400000000>>, <<50, 0>>>>,
      <<<<-81, 600000000>>, <<50, 0>>>>,
      <<<<84, 500005000>>, <<50, 0>>>>,
      <<<<-81, 499995000>>, <<50, 0>>>>,
      <<<<84, 600000000>>, <<50, 0>>>>,
      <<<<90, 0>>, <<0, 0>>>>,
      <<<<-90, 0>>, <<0, 0>>>>,
      <<<<85, 0>>, <<10, 0>>>>,
      <<<<-85, 0>>, <<10, 0>>>>,
      <<<<88, 0>>, <<180, 0>>>>,
      <<<<88, 0>>, <<-180, 0>>>>,
      <<<<87, 0>>, <<360, 0>>>>,
      <<<<89, 999999999>>, <<45, 0>>>>,
      <<<<-88, 500000000>>, <<-121, 750000000>>>>,
      <<<<83, 500000000>>, <<120, 0>>>>,
      <<<<83, 499995000>>, <<77, 0>>>>,
      <<<<-80, 500000000>>, <<-60, 0>>>>,
      <<<<-80, 500005000>>, <<-60, 0>>>>,
      <<<<-80, 500100000>>, <<-60, 0>>>>,
      <<<<83, 400000000>>, <<5, 0>>>>,
      <<<<91, 0>>, <<0, 0>>>>,
      <<<<-91, 0>>, <<0, 0>>>>,
      <<<<0, 0>>, <<400, 0>>>>,
      <<<<95, 0>>, <<0, 0>>>>,
      <<<<95, 0>>, <<400, 0>>>>,
      <<<<-95, 0>>, <<-200, 0>>>>,
      <<<<85, 0>>, <<400, 0>>>>,
      <<<<85, 0>>, <<-190, 0>>>>,
      <<<<-85, 0>>, <<361, 0>>>>,
      <<<<60, 0>>, <<11, 999999000>>>>,
      <<<<60, 0>>, <<12, 0>>>>,
      <<<<64, 0>>, <<5, 0>>>>,
      <<<<72, 0>>, <<0, 0>>>>,
      <<<<72, 0>>, <<8, 999999996>>>>,
      <<<<60, 0>>, <<-1, 999999999>>>>,
      <<<<73, 0>>, <<-1, 999999999>>>>,
      <<<<-81, 999980000>>, <<20, 0>>>>,
      <<<<10, 0>>, <<177, 0>>>>
    }

\* MGRS strings the encoder returns for some of the points.
BaseStrings ==
    {
      <<51, 49, 78, 65, 65>>,
      <<51, 49, 78, 65, 65, 54, 54, 48, 50, 49, 48, 48, 48, 48, 48>>,
      <<49, 54, 83, 71, 67, 51, 56, 53, 53, 48, 50, 52, 56, 52, 50>>,
      <<90, 65, 66, 57, 54, 53, 50>>,
      <<53, 54, 72, 76, 72, 51, 52, 51, 53, 48, 57>>
    }

\* The UTM coordinates given to MGRS.ConvertFromUTM.
UTMInputs ==
    {
      [Zone |-> 31, Hemisphere |-> 1, Easting |-> <<500000, 0>>, Northing |-> <<0, 0>>],
      [Zone |-> 31, Hemisphere |-> 1, Easting |-> <<900000, 0>>, Northing |-> <<0, 0>>],
      [Zone |-> 31, Hemisphere |-> 1, Easting |-> <<100000, 0>>, Northing |-> <<0, 0>>],
      [Zone |-> 31, Hemisphere |-> 1, Easting |-> <<833978, 0>>, Northing |-> <<0, 0>>],
      [Zone |-> 31, Hemisphere |-> 1, Easting |-> <<166021, 0>>, Northing |-> <<0, 0>>],
      [Zone |-> 32, Hemisphere |-> 1, Easting |-> <<899999, 999599999>>, Northing |-> <<1000000, 0>>],
      [Zone |-> 31, Hemisphere |-> 1, Easting |-> <<500000, 0>>, Northing |-> <<9350000, 0>>],
      [Zone |-> 31, Hemisphere |-> 1, Easting |-> <<500000, 0>>, Northing |-> <<10000000, 0>>],
      [Zone |-> 31, Hemisphere |-> 2, Easting |-> <<500000, 0>>, Northing |-> <<10000000, 0>>],
      [Zone |-> 31, Hemisphere |-> 2, Easting |-> <<500000, 0>>, Northing |-> <<0, 0>>],
      [Zone |-> 31, Hemisphere |-> 2, Easting |-> <<500000, 0>>, Northing |-> <<1100000, 0>>],
      [Zone |-> 31, Hemisphere |-> 2, Easting |-> <<500000, 0>>, Northing |-> <<1120000, 0>>],
      [Zone |-> 60, Hemisphere |-> 1, Easting |-> <<833000, 0>>, Northing |-> <<1000000, 0>>],
      [Zone |-> 1, Hemisphere |-> 1, Easting |-> <<166500, 0>>, Northing |-> <<1000000, 0>>],
      [Zone |-> 32, Hemisphere |-> 1, Easting |-> <<500000, 0>>, Northing |-> <<8500000, 0>>],
      [Zone |-> 32, Hemisphere |-> 1, Easting |-> <<450000, 0>>, Northing |-> <<8500000, 0>>],
      [Zone |-> 34, Hemisphere |-> 1, Easting |-> <<500000, 0>>, Northing |-> <<8500000, 0>>],
      [Zone |-> 36, Hemisphere |-> 1, Easting |-> <<550000, 0>>, Northing |-> <<8500000, 0>>],
      [Zone |-> 31, Hemisphere |-> 1, Easting |-> <<600000, 0>>, Northing |-> <<6500000, 0>>],
      [Zone |-> 31, Hemisphere |-> 1, Easting |-> <<400000, 0>>, Northing |-> <<6500000, 0>>],
      [Zone |-> 16, Hemisphere |-> 1, Easting |-> <<738551, 0>>, Northing |-> <<3724838, 0>>],
      [Zone |-> 56, Hemisphere |-> 2, Easting |-> <<334350, 0>>, Northing |-> <<6250900, 0>>],
      [Zone |-> 31, Hemisphere |-> 1, Easting |-> <<500000, 0>>, Northing |-> <<9329000, 0>>],
      [Zone |-> 31, Hemisphere |-> 1, Easting |-> <<700000, 0>>, Northing |-> <<9300000, 0>>],
      [Zone |-> 0, Hemisphere |-> 1, Easting |-> <<500000, 0>>, Northing |-> <<0, 0>>],
      [Zone |-> 61, Hemisphere |-> 1, Easting |-> <<500000, 0>>, Northing |-> <<0, 0>>],
      [Zone |-> 31, Hemisphere |-> 0, Easting |-> <<500000, 0>>, Northing |-> <<0, 0>>],
      [Zone |-> 31, Hemisphere |-> 1, Easting |-> <<99999, 0>>, Northing |-> <<0, 0>>],
      [Zone |-> 31, Hemisphere |-> 1, Easting |-> <<900001, 0>>, Northing |-> <<0, 0>>],
      [Zone |-> 31, Hemisphere |-> 1, Easting |-> <<500000, 0>>, Northing |-> <<-1, 0>>],
      [Zone |-> 31, Hemisphere |-> 1, Easting |-> <<500000, 0>>, Northing |-> <<10000001, 0>>],
      [Zone |-> 0, Hemisphere |-> 0, Easting |-> <<0, 0>>, Northing |-> <<-1, 0>>]
    }

\* Strings given to MGRS.ConvertToGeodetic: their point lies in the band of the
\* first letter, in a band next to it, or in neither.
ExampleStrings ==
    {
      <<49, 54, 83, 71, 67, 51, 56, 53, 53, 49, 50, 52, 56, 51, 56>>,
      <<51, 49, 78, 69, 75, 48, 48, 48, 48, 48, 52, 48, 48, 48, 48>>,
      <<51, 49, 78, 69, 74, 57, 57, 57, 57, 57, 57, 57, 57, 57, 57>>,
      <<51, 49, 78, 69, 86, 48, 48, 48, 48, 48, 52, 48, 48, 48, 48>>,
      <<51, 49, 78, 69, 65, 48, 48, 48, 48, 48, 52, 48, 48, 48, 48>>,
      <<51, 49, 78, 69, 75>>,
      <<51, 49, 80, 69, 75, 48, 48, 48, 48, 48, 52, 48, 48, 48, 48>>,
      <<51, 49, 80, 69, 74>>,
      <<51, 49, 80, 69, 74, 57, 57, 57, 57, 57, 57, 57, 57, 57, 57>>,
      <<51, 49, 81, 69, 75, 48, 48, 48, 48, 48, 52, 48, 48, 48, 48>>,
      <<51, 49, 68, 69, 77, 48, 48, 48, 48, 48, 48, 48, 48, 48, 48>>,
      <<51, 49, 87, 69, 70, 48, 48, 48, 48, 48, 48, 48, 48, 48, 48>>,
      <<51, 49, 88, 69, 70, 48, 48, 48, 48, 48, 48, 48, 48, 48, 48>>,
      <<51, 49, 67, 69, 77>>,
      <<51, 49, 67, 69, 85, 48, 48, 48, 48, 48, 48, 48, 48, 48, 48>>,
      <<51, 49, 77, 69, 75, 48, 48, 48, 48, 48, 52, 48, 48, 48, 48>>
    }

\* The arguments of MakePolarStereographicScaleFactor:
\* <<semi-major axis, inverse flattening, scale factor>>.
ScaleFactorCalls ==
    {
      <<<<6378137, 0>>, <<298, 257223563>>, <<0, 994000000>>>>,
      <<<<6378206, 400000000>>, <<294, 978698200>>, <<0, 994000000>>>>,
      <<<<6378137, 0>>, <<250, 0>>, <<0, 994000000>>>>,
      <<<<6378137, 0>>, <<350, 0>>, <<0, 994000000>>>>,
      <<<<0, 0>>, <<298, 257223563>>, <<0, 994000000>>>>,
      <<<<-1, 0>>, <<298, 257223563>>, <<0, 994000000>>>>,
      <<<<6378137, 0>>, <<249, 999999999>>, <<0, 994000000>>>>,
      <<<<6378137, 0>>, <<350, 1>>, <<0, 994000000>>>>,
      <<<<6378137, 0>>, <<0, 1000000000>>, <<0, 994000000>>>>,
      <<<<6378137, 0>>, <<298, 257223563>>, <<0, 100000000>>>>,
      <<<<6378137, 0>>, <<298, 257223563>>, <<0, 500000000>>>>,
      <<<<6378137, 0>>, <<298, 257223563>>, <<0, 750000000>>>>,
      <<<<6378137, 0>>, <<298, 257223563>>, <<1, 0>>>>,
      <<<<6378137, 0>>, <<298, 257223563>>, <<1, 1000>>>>,
      <<<<6378137, 0>>, <<298, 257223563>>, <<3, 0>>>>,
      <<<<6378137, 0>>, <<298, 257223563>>, <<0, 99999999>>>>,
      <<<<6378137, 0>>, <<298, 257223563>>, <<3, 1>>>>,
      <<<<6378137, 0>>, <<250, 0>>, <<3, 0>>>>,
      <<<<6378137, 0>>, <<350, 0>>, <<0, 100000000>>>>,
      <<<<6378137, 0>>, <<269, 196000000>>, <<2, 813000000>>>>,
      <<<<6378137, 0>>, <<252, 226000000>>, <<2, 943000000>>>>,
      <<<<6378137, 0>>, <<250, 769000000>>, <<2, 790000000>>>>
    }

\* The arguments of TransverseMercator.convertFromGeodetic:
\* <<UTM zone of the converter, latitude, longitude>>.
TMCalls ==
    {
      <<31, <<0, 0>>, <<3, 0>>>>,
      <<31, <<0, 0>>, <<38, 0>>>>,
      <<31, <<0, 0>>, <<72, 999999999>>>>,
      <<31, <<0, 0>>, <<73, 1>>>>,
      <<31, <<0, 0>>, <<93, 0>>>>,
      <<31, <<0, 0>>, <<112, 999999999>>>>,
      <<31, <<0, 0>>, <<113, 1>>>>,
      <<31, <<0, 0>>, <<153, 0>>>>,
      <<31, <<0, 0>>, <<183, 0>>>>,
      <<31, <<0, 0>>, <<-67, 1>>>>,
      <<31, <<0, 0>>, <<-68, 999999999>>>>,
      <<31, <<0, 0>>, <<-87, 0>>>>,
      <<31, <<0, 0>>, <<-107, 1>>>>,
      <<31, <<0, 0>>, <<-108, 999999999>>>>,
      <<31, <<0, 0>>, <<-176, 0>>>>,
      <<31, <<10, 0>>, <<3, 0>>>>,
      <<31, <<10, 0>>, <<38, 0>>>>,
      <<31, <<10, 0>>, <<72, 999999999>>>>,
      <<31, <<10, 0>>, <<73, 1>>>>,
      <<31, <<10, 0>>, <<93, 0>>>>,
      <<31, <<10, 0>>, <<112, 999999999>>>>,
      <<31, <<10, 0>>, <<113, 1>>>>,
      <<31, <<10, 0>>, <<153, 0>>>>,
      <<31, <<10, 0>>, <<183, 0>>>>,
      <<31, <<10, 0>>, <<-67, 1>>>>,
      <<31, <<10, 0>>, <<-68, 999999999>>>>,
      <<31, <<10, 0>>, <<-87, 0>>>>,
      <<31, <<10, 0>>, <<-107, 1>>>>,
      <<31, <<10, 0>>, <<-108, 999999999>>>>,
      <<31, <<10, 0>>, <<-176, 0>>>>,
      <<31, <<19, 999999999>>, <<3, 0>>>>,
      <<31, <<19, 999999999>>, <<38, 0>>>>,
      <<31, <<19, 999999999>>, <<72, 999999999>>>>,
      <<31, <<19, 999999999>>, <<73, 1>>>>,
      <<31, <<19, 999999999>>, <<93, 0>>>>,
      <<31, <<19, 999999999>>, <<112, 999999999>>>>,
      <<31, <<19, 999999999>>, <<113, 1>>>>,
      <<31, <<19, 999999999>>, <<153, 0>>>>,
      <<31, <<19, 999999999>>, <<183, 0>>>>,
      <<31, <<19, 999999999>>, <<-67, 1>>>>,
      <<31, <<19, 999999999>>, <<-68, 999999999>>>>,
      <<31, <<19, 999999999>>, <<-87, 0>>>>,
      <<31, <<19, 999999999>>, <<-107, 1>>>>,
      <<31, <<19, 999999999>>, <<-108, 999999999>>>>,
      <<31, <<19, 999999999>>, <<-176, 0>>>>,
      <<31, <<20, 0>>, <<3, 0>>>>,
      <<31, <<20, 0>>, <<38, 0>>>>,
      <<31, <<20, 0>>, <<72, 999999999>>>>,
      <<31, <<20, 0>>, <<73, 1>>>>,
      <<31, <<20, 0>>, <<93, 0>>>>,
      <<31, <<20, 0>>, <<112, 999999999>>>>,
      <<31, <<20, 0>>, <<113, 1>>>>,
      <<31, <<20, 0>>, <<153, 0>>>>,
      <<31, <<20, 0>>, <<183, 0>>>>,
      <<31, <<20, 0>>, <<-67, 1>>>>,
      <<31, <<20, 0>>, <<-68, 999999999>>>>,
      <<31, <<20, 0>>, <<-87, 0>>>>,
      <<31, <<20, 0>>, <<-107, 1>>>>,
      <<31, <<20, 0>>, <<-108, 999999999>>>>,
      <<31, <<20, 0>>, <<-176, 0>>>>,
      <<31, <<45, 0>>, <<3, 0>>>>,
      <<31, <<45, 0>>, <<38, 0>>>>,
      <<31, <<45, 0>>, <<72, 999999999>>>>,
      <<31, <<45, 0>>, <<73, 1>>>>,
      <<31, <<45, 0>>, <<93, 0>>>>,
      <<31, <<45, 0>>, <<112, 999999999>>>>,
      <<31, <<45, 0>>, <<113, 1>>>>,
      <<31, <<45, 0>>, <<153, 0>>>>,
      <<31, <<45, 0>>, <<183, 0>>>>,
      <<31, <<45, 0>>, <<-67, 1>>>>,
      <<31, <<45, 0>>, <<-68, 999999999>>>>,
      <<31, <<45, 0>>, <<-87, 0>>>>,
      <<31, <<45, 0>>, <<-107, 1>>>>,
      <<31, <<45, 0>>, <<-108, 999999999>>>>,
      <<31, <<45, 0>>, <<-176, 0>>>>,
      <<31, <<89, 0>>, <<3, 0>>>>,
      <<31, <<89, 0>>, <<38, 0>>>>,
      <<31, <<89, 0>>, <<72, 999999999>>>>,
      <<31, <<89, 0>>, <<73, 1>>>>,
      <<31, <<89, 0>>, <<93, 0>>>>,
      <<31, <<89, 0>>, <<112, 999999999>>>>,
      <<31, <<89, 0>>, <<113, 1>>>>,
      <<31, <<89, 0>>, <<153, 0>>>>,
      <<31, <<89, 0>>, <<183, 0>>>>,
      <<31, <<89, 0>>, <<-67, 1>>>>,
      <<31, <<89, 0>>, <<-68, 999999999>>>>,
      <<31, <<89, 0>>, <<-87, 0>>>>,
      <<31, <<89, 0>>, <<-107, 1>>>>,
      <<31, <<89, 0>>, <<-108, 999999999>>>>,
      <<31, <<89, 0>>, <<-176, 0>>>>,
      <<31, <<-20, 1>>, <<3, 0>>>>,
      <<31, <<-20, 1>>, <<38, 0>>>>,
      <<31, <<-20, 1>>, <<72, 999999999>>>>,
      <<31, <<-20, 1>>, <<73, 1>>>>,
      <<31, <<-20, 1>>, <<93, 0>>>>,
      <<31, <<-20, 1>>, <<112, 999999999>>>>,
      <<31, <<-20, 1>>, <<113, 1>>>>,
      <<31, <<-20, 1>>, <<153, 0>>>>,
      <<31, <<-20, 1>>, <<183, 0>>>>,
      <<31, <<-20, 1>>, <<-67, 1>>>>,
      <<31, <<-20, 1>>, <<-68, 999999999>>>>,
      <<31, <<-20, 1>>, <<-87, 0>>>>,
      <<31, <<-20, 1>>, <<-107, 1>>>>,
      <<31, <<-20, 1>>, <<-108, 999999999>>>>,
      <<31, <<-20, 1>>, <<-176, 0>>>>,
      <<31, <<-20, 0>>, <<3, 0>>>>,
      <<31, <<-20, 0>>, <<38, 0>>>>,
      <<31, <<-20, 0>>, <<72, 999999999>>>>,
      <<31, <<-20, 0>>, <<73, 1>>>>,
      <<31, <<-20, 0>>, <<93, 0>>>>,
      <<31, <<-20, 0>>, <<112, 999999999>>>>,
      <<31, <<-20, 0>>, <<113, 1>>>>,
      <<31, <<-20, 0>>, <<153, 0>>>>,
      <<31, <<-20, 0>>, <<183, 0>>>>,
      <<31, <<-20, 0>>, <<-67, 1>>>>,
      <<31, <<-20, 0>>, <<-68, 999999999>>>>,
      <<31, <<-20, 0>>, <<-87, 0>>>>,
      <<31, <<-20, 0>>, <<-107, 1>>>>,
      <<31, <<-20, 0>>, <<-108, 999999999>>>>,
      <<31, <<-20, 0>>, <<-176, 0>>>>,
      <<31, <<-60, 0>>, <<3, 0>>>>,
      <<31, <<-60, 0>>, <<38, 0>>>>,
      <<31, <<-60, 0>>, <<72, 999999999>>>>,
      <<31, <<-60, 0>>, <<73, 1>>>>,
      <<31, <<-60, 0>>, <<93, 0>>>>,
      <<31, <<-60, 0>>, <<112, 999999999>>>>,
      <<31, <<-60, 0>>, <<113, 1>>>>,
      <<31, <<-60, 0>>, <<153, 0>>>>,
      <<31, <<-60, 0>>, <<183, 0>>>>,
      <<31, <<-60, 0>>, <<-67, 1>>>>,
      <<31, <<-60, 0>>, <<-68, 999999999>>>>,
      <<31, <<-60, 0>>, <<-87, 0>>>>,
      <<31, <<-60, 0>>, <<-107, 1>>>>,
      <<31, <<-60, 0>>, <<-108, 999999999>>>>,
      <<31, <<-60, 0>>, <<-176, 0>>>>,
      <<60, <<0, 0>>, <<177, 0>>>>,
      <<60, <<0, 0>>, <<212, 0>>>>,
      <<60, <<0, 0>>, <<246, 999999999>>>>,
      <<60, <<0, 0>>, <<247, 1>>>>,
      <<60, <<0, 0>>, <<267, 0>>>>,
      <<60, <<0, 0>>, <<286, 999999999>>>>,
      <<60, <<0, 0>>, <<287, 1>>>>,
      <<60, <<0, 0>>, <<327, 0>>>>,
      <<60, <<0, 0>>, <<357, 0>>>>,
      <<60, <<0, 0>>, <<107, 1>>>>,
      <<60, <<0, 0>>, <<106, 999999999>>>>,
      <<60, <<0, 0>>, <<87, 0>>>>,
      <<60, <<0, 0>>, <<67, 1>>>>,
      <<60, <<0, 0>>, <<66, 999999999>>>>,
      <<60, <<0, 0>>, <<-2, 0>>>>,
      <<60, <<10, 0>>, <<177, 0>>>>,
      <<60, <<10, 0>>, <<212, 0>>>>,
      <<60, <<10, 0>>, <<246, 999999999>>>>,
      <<60, <<10, 0>>, <<247, 1>>>>,
      <<60, <<10, 0>>, <<267, 0>>>>,
      <<60, <<10, 0>>, <<286, 999999999>>>>,
      <<60, <<10, 0>>, <<287, 1>>>>,
      <<60, <<10, 0>>, <<327, 0>>>>,
      <<60, <<10, 0>>, <<357, 0>>>>,
      <<60, <<10, 0>>, <<107, 1>>>>,
      <<60, <<10, 0>>, <<106, 999999999>>>>,
      <<60, <<10, 0>>, <<87, 0>>>>,
      <<60, <<10, 0>>, <<67, 1>>>>,
      <<60, <<10, 0>>, <<66, 999999999>>>>,
      <<60, <<10, 0>>, <<-2, 0>>>>,
      <<60, <<19, 999999999>>, <<177, 0>>>>,
      <<60, <<19, 999999999>>, <<212, 0>>>>,
      <<60, <<19, 999999999>>, <<246, 999999999>>>>,
      <<60, <<19, 999999999>>, <<247, 1>>>>,
      <<60, <<19, 999999999>>, <<267, 0>>>>,
      <<60, <<19, 999999999>>, <<286, 999999999>>>>,
      <<60, <<19, 999999999>>, <<287, 1>>>>,
      <<60, <<19, 999999999>>, <<327, 0>>>>,
      <<60, <<19, 999999999>>, <<357, 0>>>>,
      <<60, <<19, 999999999>>, <<107, 1>>>>,
      <<60, <<19, 999999999>>, <<106, 999999999>>>>,
      <<60, <<19, 999999999>>, <<87, 0>>>>,
      <<60, <<19, 999999999>>, <<67, 1>>>>,
      <<60, <<19, 999999999>>, <<66, 999999999>>>>,
      <<60, <<19, 999999999>>, <<-2, 0>>>>,
      <<60, <<20, 0>>, <<177, 0>>>>,
      <<60, <<20, 0>>, <<212, 0>>>>,
      <<60, <<20, 0>>, <<246, 999999999>>>>,
      <<60, <<20, 0>>, <<247, 1>>>>,
      <<60, <<20, 0>>, <<267, 0>>>>,
      <<60, <<20, 0>>, <<286, 999999999>>>>,
      <<60, <<20, 0>>, <<287, 1>>>>,
      <<60, <<20, 0>>, <<327, 0>>>>,
      <<60, <<20, 0>>, <<357, 0>>>>,
      <<60, <<20, 0>>, <<107, 1>>>>,
      <<60, <<20, 0>>, <<106, 999999999>>>>,
      <<60, <<20, 0>>, <<87, 0>>>>,
      <<60, <<20, 0>>, <<67, 1>>>>,
      <<60, <<20, 0>>, <<66, 999999999>>>>,
      <<60, <<20, 0>>, <<-2, 0>>>>,
      <<60, <<45, 0>>, <<177, 0>>>>,
      <<60, <<45, 0>>, <<212, 0>>>>,
      <<60, <<45, 0>>, <<246, 999999999>>>>,
      <<60, <<45, 0>>, <<247, 1>>>>,
      <<60, <<45, 0>>, <<267, 0>>>>,
      <<60, <<45, 0>>, <<286, 999999999>>>>,
      <<60, <<45, 0>>, <<287, 1>>>>,
      <<60, <<45, 0>>, <<327, 0>>>>,
      <<60, <<45, 0>>, <<357, 0>>>>,
      <<60, <<45, 0>>, <<107, 1>>>>,
      <<60, <<45, 0>>, <<106, 999999999>>>>,
      <<60, <<45, 0>>, <<87, 0>>>>,
      <<60, <<45, 0>>, <<67, 1>>>>,
      <<60, <<45, 0>>, <<66, 999999999>>>>,
      <<60, <<45, 0>>, <<-2, 0>>>>,
      <<60, <<89, 0>>, <<177, 0>>>>,
      <<60, <<89, 0>>, <<212, 0>>>>,
      <<60, <<89, 0>>, <<246, 999999999>>>>,
      <<60, <<89, 0>>, <<247, 1>>>>,
      <<60, <<89, 0>>, <<267, 0>>>>,
      <<60, <<89, 0>>, <<286, 999999999>>>>,
      <<60, <<89, 0>>, <<287, 1>>>>,
      <<60, <<89, 0>>, <<327, 0>>>>,
      <<60, <<89, 0>>, <<357, 0>>>>,
      <<60, <<89, 0>>, <<107, 1>>>>,
      <<60, <<89, 0>>, <<106, 999999999>>>>,
      <<60, <<89, 0>>, <<87, 0>>>>,
      <<60, <<89, 0>>, <<67, 1>>>>,
      <<60, <<89, 0>>, <<66, 999999999>>>>,
      <<60, <<89, 0>>, <<-2, 0>>>>,
      <<60, <<-20, 1>>, <<177, 0>>>>,
      <<60, <<-20, 1>>, <<212, 0>>>>,
      <<60, <<-20, 1>>, <<246, 999999999>>>>,
      <<60, <<-20, 1>>, <<247, 1>>>>,
      <<60, <<-20, 1>>, <<267, 0>>>>,
      <<60, <<-20, 1>>, <<286, 999999999>>>>,
      <<60, <<-20, 1>>, <<287, 1>>>>,
      <<60, <<-20, 1>>, <<327, 0>>>>,
      <<60, <<-20, 1>>, <<357, 0>>>>,
      <<60, <<-20, 1>>, <<107, 1>>>>,
      <<60, <<-20, 1>>, <<106, 999999999>>>>,
      <<60, <<-20, 1>>, <<87, 0>>>>,
      <<60, <<-20, 1>>, <<67, 1>>>>,
      <<60, <<-20, 1>>, <<66, 999999999>>>>,
      <<60, <<-20, 1>>, <<-2, 0>>>>,
      <<60, <<-20, 0>>, <<177, 0>>>>,
      <<60, <<-20, 0>>, <<212, 0>>>>,
      <<60, <<-20, 0>>, <<246, 999999999>>>>,
      <<60, <<-20, 0>>, <<247, 1>>>>,
      <<60, <<-20, 0>>, <<267, 0>>>>,
      <<60, <<-20, 0>>, <<286, 999999999>>>>,
      <<60, <<-20, 0>>, <<287, 1>>>>,
      <<60, <<-20, 0>>, <<327, 0>>>>,
      <<60, <<-20, 0>>, <<357, 0>>>>,
      <<60, <<-20, 0>>, <<107, 1>>>>,
      <<60, <<-20, 0>>, <<106, 999999999>>>>,
      <<60, <<-20, 0>>, <<87, 0>>>>,
      <<60, <<-20, 0>>, <<67, 1>>>>,
      <<60, <<-20, 0>>, <<66, 999999999>>>>,
      <<60, <<-20, 0>>, <<-2, 0>>>>,
      <<60, <<-60, 0>>, <<177, 0>>>>,
      <<60, <<-60, 0>>, <<212, 0>>>>,
      <<60, <<-60, 0>>, <<246, 999999999>>>>,
      <<60, <<-60, 0>>, <<247, 1>>>>,
      <<60, <<-60, 0>>, <<267, 0>>>>,
      <<60, <<-60, 0>>, <<286, 999999999>>>>,
      <<60, <<-60, 0>>, <<287, 1>>>>,
      <<60, <<-60, 0>>, <<327, 0>>>>,
      <<60, <<-60, 0>>, <<357, 0>>>>,
      <<60, <<-60, 0>>, <<107, 1>>>>,
      <<60, <<-60, 0>>, <<106, 999999999>>>>,
      <<60, <<-60, 0>>, <<87, 0>>>>,
      <<60, <<-60, 0>>, <<67, 1>>>>,
      <<60, <<-60, 0>>, <<66, 999999999>>>>,
      <<60, <<-60, 0>>, <<-2, 0>>>>
    }

\* The function with the given <<argument, value>> pairs.
TableOf(entries) ==
    [k \in {e[1] : e \in entries} |-> (CHOOSE e \in entries : e[1] = k)[2]]

TMForwardTable == TableOf(TMForwardEntries)

TMInverseTable == TableOf(TMInverseEntries)

PSForwardTable == TableOf(PSForwardEntries)

PSInverseTable == TableOf(PSInverseEntries)

GeodeticLatTable == TableOf(GeodeticLatEntries)

PolarLatitudeTable == TableOf(PolarLatitudeEntries)

ScaleFactorSolveTable == TableOf(ScaleFactorSolveEntries)

PolarDeltaTable == TableOf(PolarDeltaEntries)
\* ---- tabulated values: end ----

\* The tabulated value of key, handed to F; a key outside the table has no
\* value in the model.
TableLookup(table, key, F(_)) ==
    IF key \in DOMAIN table THEN F(table[key]) ELSE Untabulated

\* A pair of tabulated numbers.
PairOfFx(v) == Ok(<<Fx(v[1], v[2]), Fx(v[3], v[4])>>)

\* Lines 158-358: the cases of the switch, each the set of ellipsoid codes
\* that share one list of coefficients.
CoefficientCases ==
    {{"AA", "AM"}, {"EA", "EB", "EC", "ED", "EE"}, {"BN", "BR"}, {"KA", "HE", "FA"},
     {"WD"}, {"WE"}, {"RF"}, {"SA", "AN"}, {"ID"}, {"IN", "HO"}, {"WO"}, {"CC"},
     {"CG"}, {"CD"}}

\* Where aCoeff and bCoeff come from: the case of the switch that lists
\* ellipsoidCode, or the series in n1 of the default case.
generateCoefficients(ellipsoidCode) ==
    IF \E c \in CoefficientCases : ellipsoidCode \in c
    THEN [from |-> "table", case |-> CHOOSE c \in CoefficientCases : ellipsoidCode \in c]
    ELSE [from |-> "series", case |-> {}]

\* The value of the field ellipsCode of the struct built at lines 49-57: no
\* line of the constructor assigns it.
tmEllipsCode == ""

\* Angles in degrees: Pi is 180, 2*Pi is 360.  Line 95 hands the field
\* t.ellipsCode to generateCoefficients.
NewTransverseMercator(centralMeridian, ellipsoidCode) ==
    IF ellipsoidCode = "" THEN Err("missing ellipsoid code")
    ELSE IF centralMeridian < -180 \/ centralMeridian > 360 THEN Err("centralMeridian out of range")
    ELSE Ok([ellipsCode |-> tmEllipsCode,
             tranMercCoeff |-> generateCoefficients(tmEllipsCode),
             tranMercOriginLong |-> IF centralMeridian > 180 THEN centralMeridian - 360 ELSE centralMeridian,
             tranMercOriginLat |-> 0,
             tranMercFalseEasting |-> 500000,
             TranMercFalseNorthing |-> 0,
             tranMercDeltaEasting |-> 20000000,
             tranMercDeltaNorthing |-> 10000000])

\* The smaller of two numbers.
FxMin(a, b) == IF FxLt(a, b) THEN a ELSE b

\* "if x > Pi { x -= 2 * Pi }"
WrapHigh(x) == IF FxGt(x, FxInt(180)) THEN FxSub(x, FxInt(360)) ELSE x

\* "if x < -Pi { x += 2 * Pi }"
WrapLow(x) == IF FxLt(x, FxInt(-180)) THEN FxAdd(x, FxInt(360)) ELSE x

\* "if x <= -Pi { x += 2 * Pi }"
WrapLowInclusive(x) == IF FxLe(x, FxInt(-180)) THEN FxAdd(x, FxInt(360)) ELSE x

\* The two wraps the code applies one after the other.
WrapTurn(x) == WrapLow(WrapHigh(x))

\* checkLatLon without the two tests on the latitude of lines 545-554.
checkLatLonMeridianOnly(latitude, deltaLon) ==
    With(WrapTurn(deltaLon), LAMBDA d :
        FxGt(FxMin(FxAbs(FxAdd(d, FxInt(180))),
                   FxMin(FxAbs(FxSub(d, FxInt(180))), FxAbs(d))),
             FxInt(70)))

\* TRUE when checkLatLon returns its error.
checkLatLon(latitude, deltaLon) ==
    With(WrapTurn(deltaLon), LAMBDA d :
        FxGt(FxMin(FxAdd(FxInt(90), latitude),
                   FxMin(FxSub(FxInt(90), latitude),
                         FxMin(FxAbs(FxAdd(d, FxInt(180))),
                               FxMin(FxAbs(FxSub(d, FxInt(180))), FxAbs(d))))),
             FxInt(70)))

\* The result is <<easting, northing>>.
TransverseMercator_convertFromGeodetic(t, latitude, lon) ==
    With(WrapTurn(lon), LAMBDA longitude :
        IF checkLatLon(latitude, WrapTurn(FxSub(longitude, FxInt(t.tranMercOriginLong))))
        THEN Err("longitude out of range")
        ELSE TableLookup(TMForwardTable,
                         <<t.tranMercOriginLong, latitude[1], latitude[2],
                           longitude[1], longitude[2]>>,
                         PairOfFx))

\* Lines 710-736, entered with the latitude and the longitude found.  After
\* lines 710-715 the longitude is in (-Pi, Pi]: lines 720-730 change nothing.
tmInverseResult(latitude, l0) ==
    IF FxGt(FxAbs(latitude), FxInt(90)) THEN Err("northing out of range")
    ELSE Ok(<<latitude, WrapLowInclusive(WrapHigh(l0))>>)

\* The result is <<latitude, longitude>>.
TransverseMercator_convertToGeodetic(t, easting, northing) ==
    IF \/ FxLt(easting, FxInt(t.tranMercFalseEasting - t.tranMercDeltaEasting))
       \/ FxGt(easting, FxInt(t.tranMercFalseEasting + t.tranMercDeltaEasting))
    THEN Err("easting out of range")
    ELSE IF \/ FxLt(northing, FxInt(t.TranMercFalseNorthing - t.tranMercDeltaNorthing))
            \/ FxGt(northing, FxInt(t.TranMercFalseNorthing + t.tranMercDeltaNorthing))
    THEN Err("northing out of range")
    ELSE TableLookup(TMInverseTable,
                     <<t.tranMercOriginLong, easting[1], easting[2], northing[1], northing[2]>>,
                     LAMBDA v : tmInverseResult(Fx(v[1], v[2]), Fx(v[3], v[4])))

(***************************************************************************)
(* polarstereographic.go, for the two projections NewUPS builds            *)
(***************************************************************************)
HemisphereInvalid == 0

HemisphereNorth == 1

HemisphereSouth == 2

\* polarDeltaNorthing = polarDeltaEasting = 12763691.683239978 m is what
\* lines 270-281 compute for scale factor 0.994 on WGS84.
NewPolarStereographicScaleFactor(hemisphere) ==
    [isSouthernHemisphere |-> hemisphere = HemisphereSouth,
     polarCentralMeridian |-> 0,
     polarFalseEasting |-> 2000000,
     polarFalseNorthing |-> 2000000,
     polarDeltaEasting |-> Fx(12763691, 683239977),
     polarDeltaNorthing |-> Fx(12763691, 683239977)]

\* Line 173: count := 30.
scaleFactorCount == 30

\* Line 216, math.Abs(skPlus1-sk) > tolerance, when the loop has made the
\* given number of passes.  needed is the number of passes after which the
\* two values are within the tolerance of each other for the arguments of
\* the call, -1 when they never are.
scaleFactorOutsideTolerance(needed, passes) == needed < 0 \/ passes < needed

\* The condition of line 216 without its test of count.
scaleFactorLoopUncounted(needed, passes, count) ==
    scaleFactorOutsideTolerance(needed, passes)

\* Line 216: math.Abs(skPlus1-sk) > tolerance && count != 0.
scaleFactorLoopCondition(needed, passes, count) ==
    scaleFactorOutsideTolerance(needed, passes) /\ count # 0

\* Lines 216-225: count when the loop ends, entered with the given count.
RECURSIVE scaleFactorLoop(_, _)
scaleFactorLoop(needed, count) ==
    IF scaleFactorLoopCondition(needed, scaleFactorCount - count, count)
    THEN scaleFactorLoop(needed, count - 1)
    ELSE count

\* The test of line 232 with every sine accepted that is a number.
scaleFactorSineAny(skPlus1) == ~IsNaN(skPlus1)

\* Line 232: skPlus1 >= -1.0 && skPlus1 <= 1.0, false of a value that is not
\* a number.
scaleFactorSineValid(skPlus1) ==
    ~IsNaN(skPlus1) /\ FxGe(skPlus1, FxInt(-1)) /\ FxLe(skPlus1, FxInt(1))

\* Lines 227-236: the sine of the standard parallel, or the error.
scaleFactorSolve(count, skPlus1) ==
    IF count = 0 THEN Err("origin latitude error")
    ELSE IF scaleFactorSineValid(skPlus1) THEN Ok(skPlus1)
    ELSE Err("origin latitude error")

\* Lines 238-283: the converter for the standard parallel found.
polarStereographicOf(ellipsoidSemiMajorAxis, invF, centralMeridian, scaleFactor, hemisphere) ==
    TableLookup(PolarDeltaTable,
                <<ellipsoidSemiMajorAxis[1], ellipsoidSemiMajorAxis[2],
                  invF[1], invF[2], scaleFactor[1], scaleFactor[2]>>,
                LAMBDA d :
                    Ok([isSouthernHemisphere |-> hemisphere = HemisphereSouth,
                        polarCentralMeridian |->
                            IF centralMeridian > 180 THEN centralMeridian - 360
                            ELSE centralMeridian,
                        polarFalseEasting |-> 2000000,
                        polarFalseNorthing |-> 2000000,
                        polarDeltaEasting |-> Fx(d[1], d[2]),
                        polarDeltaNorthing |-> Fx(d[1], d[2])]))

\* Lines 179-196: the error of the tests of the arguments, None when they
\* pass.  The flattening is given by its inverse, the number lines 183-186
\* test; angles are in degrees.  A number that is not a number passes every
\* test.
scaleFactorArgumentError(ellipsoidSemiMajorAxis, invF, centralMeridian, scaleFactor, hemisphere) ==
    IF ~IsNaN(ellipsoidSemiMajorAxis) /\ FxLe(ellipsoidSemiMajorAxis, FxInt(0))
    THEN Err("Semi-major axis must be greater than zero")
    ELSE IF ~IsNaN(invF) /\ (FxLt(invF, FxInt(250)) \/ FxGt(invF, FxInt(350)))
    THEN Err("Inverse flattening must be between 250 and 350")
    ELSE IF FxLt(scaleFactor, Fx(0, 100000000)) \/ FxGt(scaleFactor, FxInt(3))
    THEN Err("Scale factor out of range")
    ELSE IF centralMeridian < -180 \/ centralMeridian > 360
    THEN Err("Origin Longitude out of range")
    ELSE IF hemisphere # HemisphereNorth /\ hemisphere # HemisphereSouth
    THEN Err("Hemisphere out of range")
    ELSE None

\* Lines 148-284.  With a flattening that is not a number the loop of lines
\* 216-225 ends after one pass with skPlus1 not a number, and the test of
\* line 232 fails.
MakePolarStereographicScaleFactor(ellipsoidSemiMajorAxis, invF, centralMeridian, scaleFactor, hemisphere) ==
    IF scaleFactorArgumentError(ellipsoidSemiMajorAxis, invF, centralMeridian,
                                scaleFactor, hemisphere) # None
    THEN scaleFactorArgumentError(ellipsoidSemiMajorAxis, invF, centralMeridian,
                                  scaleFactor, hemisphere)
    ELSE TableLookup(
             ScaleFactorSolveTable, <<invF[1], invF[2], scaleFactor[1], scaleFactor[2]>>,
             LAMBDA v :
                 Then(scaleFactorSolve(scaleFactorLoop(v[1], scaleFactorCount), Fx(v[2], v[3])),
                      LAMBDA sine :
                          polarStereographicOf(ellipsoidSemiMajorAxis, invF, centralMeridian,
                                               scaleFactor, hemisphere)))

\* math.Abs(math.Abs(latitude) - Pi/2) < 1.0e-10: 1.0e-10 rad is
\* 5.73e-9 degree.
AtPole(latitude) == FxLe(FxAbs(FxSub(FxAbs(latitude), FxInt(90))), Fx(0, 5))

\* The result is <<easting, northing>>.
PolarStereographic_ConvertFromGeodetic(p, latitude, longitude) ==
    IF FxLt(latitude, FxInt(-90)) \/ FxGt(latitude, FxInt(90))
    THEN Err("latitide out of range")
    ELSE IF FxLt(latitude, FxInt(0)) /\ ~p.isSouthernHemisphere
    THEN Err("latitude and Origin Latitude in different hemispheres")
    ELSE IF FxGt(latitude, FxInt(0)) /\ p.isSouthernHemisphere
    THEN Err("latitude and Origin Latitude in different hemispheres")
    ELSE IF FxLt(longitude, FxInt(-180)) \/ FxGt(longitude, FxInt(360))
    THEN Err("longitude out of range")
    ELSE IF AtPole(latitude)
    THEN Ok(<<FxInt(p.polarFalseEasting), FxInt(p.polarFalseNorthing)>>)
    ELSE TableLookup(PSForwardTable,
                     <<IF p.isSouthernHemisphere THEN 1 ELSE 0,
                       latitude[1], latitude[2], longitude[1], longitude[2]>>,
                     PairOfFx)

\* rho > deltaRadius, decided on whole kilometres: deltaRadius is
\* 18050585.88 m, and no argument of the model is within 2 km of it.
OutsideDeltaRadius(dx, dy) ==
    (FxAbs(dx)[1] \div 1000) * (FxAbs(dx)[1] \div 1000)
    + (FxAbs(dy)[1] \div 1000) * (FxAbs(dy)[1] \div 1000) > 18050 * 18050

\* The result is <<latitude, longitude>>.
PolarStereographic_ConvertToGeodetic(p, easting, northing) ==
    IF \/ FxGt(easting, FxAdd(FxInt(p.polarFalseEasting), p.polarDeltaEasting))
       \/ FxLt(easting, FxSub(FxInt(p.polarFalseEasting), p.polarDeltaEasting))
    THEN Err("easting out of range")
    ELSE IF \/ FxGt(northing, FxAdd(FxInt(p.polarFalseNorthing), p.polarDeltaNorthing))
            \/ FxLt(northing, FxSub(FxInt(p.polarFalseNorthing), p.polarDeltaNorthing))
    THEN Err("northing out of range")
    ELSE IF OutsideDeltaRadius(FxSub(easting, FxInt(p.polarFalseEasting)),
                               FxSub(northing, FxInt(p.polarFalseNorthing)))
    THEN Err("Point is outside of projection area")
    ELSE IF northing = FxInt(p.polarFalseNorthing) /\ easting = FxInt(p.polarFalseEasting)
    THEN Ok(<<IF p.isSouthernHemisphere THEN FxInt(-90) ELSE FxInt(90),
              FxInt(p.polarCentralMeridian)>>)
    ELSE TableLookup(PSInverseTable,
                     <<IF p.isSouthernHemisphere THEN 1 ELSE 0,
                       easting[1], easting[2], northing[1], northing[2]>>,
                     PairOfFx)

(***************************************************************************)
(* ups.go and utm.go: constants                                            *)
(***************************************************************************)
\* epsilonRadians = 1.75e-7 rad = 10026.76e-9 degree: its floor, and its
\* ceiling.  A test x < T or x >= T against a threshold T off the grid is
\* made against the ceiling of T, a test x > T or x <= T against its floor.
epsilonRadians == Fx(0, 10026)

epsilonRadiansUp == Fx(0, 10027)

upsFalseEasting == 2000000

upsFalseNorthing == 2000000

upsMaxLat == FxInt(90)

upsMaxOriginLat == Fx(81, 114528000)

upsMinNorthLat == Fx(83, 500000000)

upsMaxSouthLat == Fx(-80, 500000000)

upsMinEastNorth == 0

upsMaxEastNorth == 4000000

utmMinLat == Fx(-81, 500000000)

utmMaxLat == Fx(84, 500000000)

utmMinEasting == 100000

utmMaxEasting == 900000

utmMinNorthing == 0

utmMaxNorthing == 10000000

(***************************************************************************)
(* utm.go                                                                  *)
(***************************************************************************)
centralMeridian(zone) == IF zone >= 31 THEN 6 * zone - 183 ELSE 6 * zone + 177

NewUTM2(ellipsoidCode, override) ==
    IF override < 0 \/ override > 60 THEN Err("zone override out of range")
    ELSE IF \E zone \in 1..60 : ~IsOk(NewTransverseMercator(centralMeridian(zone), ellipsoidCode))
    THEN NewTransverseMercator(centralMeridian(1), ellipsoidCode)
    ELSE Ok([ellipsCode |-> ellipsoidCode,
             utmOverride |-> override,
             transverseMercatorMap |->
                 [zone \in 1..60 |-> NewTransverseMercator(centralMeridian(zone), ellipsoidCode).val]])

\* Lines 145-156, entered with longitude + 1.0e-10: 1.0e-10 rad is
\* 5.73e-9 degree.
utmZoneOfPadded(longitude, padded) ==
    IF FxLt(longitude, FxInt(180)) THEN 31 + (padded[1] \div 6)
    ELSE (padded[1] \div 6) - 29

\* Lines 145-156.
utmTempZone(longitude) ==
    With(utmZoneOfPadded(longitude, FxAdd(longitude, Fx(0, 5))),
         LAMBDA z : IF z > 60 THEN 1 ELSE z)

\* Lines 159-180: the zone after an override, 0 for "zone out of range".
utmApplyOverride(tempZone, override) ==
    IF tempZone = 1 /\ override = 60 THEN override
    ELSE IF tempZone = 60 /\ override = 1 THEN override
    ELSE IF tempZone - 1 <= override /\ override <= tempZone + 1 THEN override
    ELSE 0

\* The zone of the longitude kept everywhere.
utmNoSpecialZone(tempZone, LatDegrees, LongDegrees) == tempZone

\* Lines 183-202: southern Norway and Svalbard.
utmSpecialZone(tempZone, LatDegrees, LongDegrees) ==
    LET z1 == IF LatDegrees > 55 /\ LatDegrees < 64 /\ LongDegrees > -1 /\ LongDegrees < 3
              THEN 31 ELSE tempZone
        z2 == IF LatDegrees > 55 /\ LatDegrees < 64 /\ LongDegrees > 2 /\ LongDegrees < 12
              THEN 32 ELSE z1
        z3 == IF LatDegrees > 71 /\ LongDegrees > -1 /\ LongDegrees < 9 THEN 31 ELSE z2
        z4 == IF LatDegrees > 71 /\ LongDegrees > 8 /\ LongDegrees < 21 THEN 33 ELSE z3
        z5 == IF LatDegrees > 71 /\ LongDegrees > 20 /\ LongDegrees < 33 THEN 35 ELSE z4
    IN  IF LatDegrees > 71 /\ LongDegrees > 32 /\ LongDegrees < 42 THEN 37 ELSE z5

\* Lines 223-233: the range checks on the projected point.
utmRangeChecked(zone, hemisphere, easting, northing) ==
    IF FxLt(easting, FxInt(utmMinEasting)) \/ FxGt(easting, FxInt(utmMaxEasting))
    THEN Err("easting out of range")
    ELSE IF FxLt(northing, FxInt(utmMinNorthing)) \/ FxGt(northing, FxInt(utmMaxNorthing))
    THEN Err("northing out of range")
    ELSE Ok([Zone |-> zone, Hemisphere |-> hemisphere, Easting |-> easting, Northing |-> northing])

\* Lines 205-233, entered with the zone chosen.
utmProject(u, tempZone, latitude, longitude) ==
    IF tempZone < 0 \/ tempZone > 60 THEN Panic("index out of range")
    ELSE IF tempZone = 0 THEN Panic("nil pointer dereference")
    ELSE Then(TransverseMercator_convertFromGeodetic(
                  u.transverseMercatorMap[tempZone], latitude, longitude),
              LAMBDA en :
                  utmRangeChecked(
                      tempZone,
                      IF FxLt(latitude, FxInt(0)) THEN HemisphereSouth ELSE HemisphereNorth,
                      en[1],
                      FxAdd(en[2], FxInt(IF FxLt(latitude, FxInt(0)) THEN 10000000 ELSE 0))))

\* Lines 145-233, entered with the latitude and the longitude normalised.
utmFromNormalised(u, latitude, longitude, override) ==
    With(utmTempZone(longitude), LAMBDA tempZone :
        IF tempZone < 0 THEN Err("longitude out of range")
        ELSE IF override # 0 /\ utmApplyOverride(tempZone, override) = 0
        THEN Err("zone out of range")
        ELSE utmProject(u,
                        IF override # 0 THEN utmApplyOverride(tempZone, override)
                        ELSE utmSpecialZone(tempZone, GoInt(latitude), GoInt(longitude)),
                        latitude, longitude))

\* ConvertFromGeodetic with the longitude tested before the latitude.
UTM_ConvertFromGeodeticLongitudeFirst(u, lat, lon, utmZoneOverride) ==
    IF \/ FxLt(lon, FxSub(FxInt(-180), epsilonRadians))
       \/ FxGt(lon, FxAdd(FxInt(360), epsilonRadians))
    THEN Err("longitude out of range")
    ELSE IF \/ FxLt(lat, FxSub(utmMinLat, epsilonRadians))
            \/ FxGe(lat, FxAdd(utmMaxLat, epsilonRadiansUp))
    THEN Err("latitude out of range ")
    ELSE utmFromNormalised(
             u,
             IF FxGt(lat, FxNeg(Fx(0, 58))) /\ FxLt(lat, FxInt(0)) THEN FxInt(0) ELSE lat,
             IF FxLt(lon, FxInt(0)) THEN FxAdd(lon, FxInt(360)) ELSE lon,
             IF utmZoneOverride # 0 THEN utmZoneOverride ELSE u.utmOverride)

\* The value ConvertFromGeodetic returns: [Zone, Hemisphere, Easting,
\* Northing].  The latitude is tested first (lines 125-128).
UTM_ConvertFromGeodetic(u, lat, lon, utmZoneOverride) ==
    IF \/ FxLt(lat, FxSub(utmMinLat, epsilonRadians))
       \/ FxGe(lat, FxAdd(utmMaxLat, epsilonRadiansUp))
    THEN Err("latitude out of range ")
    ELSE IF \/ FxLt(lon, FxSub(FxInt(-180), epsilonRadians))
            \/ FxGt(lon, FxAdd(FxInt(360), epsilonRadians))
    THEN Err("longitude out of range")
    ELSE utmFromNormalised(
             u,
             \* (latitude > -1.0e-9) && (latitude < 0): 1.0e-9 rad is 57.3e-9 degree
             IF FxGt(lat, FxNeg(Fx(0, 58))) /\ FxLt(lat, FxInt(0)) THEN FxInt(0) ELSE lat,
             IF FxLt(lon, FxInt(0)) THEN FxAdd(lon, FxInt(360)) ELSE lon,
             IF utmZoneOverride # 0 THEN utmZoneOverride ELSE u.utmOverride)

\* The test of lines 271-275 without the margin epsilonRadians.
utmResultingLatitudeOutOfRangeNoEpsilon(latitude) ==
    FxLt(latitude, utmMinLat) \/ FxGe(latitude, utmMaxLat)

\* Lines 271-275: the latitude the inverse projection found is out of range.
utmResultingLatitudeOutOfRange(latitude) ==
    \/ FxLt(latitude, FxSub(utmMinLat, epsilonRadians))
    \/ FxGe(latitude, FxAdd(utmMaxLat, epsilonRadiansUp))

\* utmCoordinates is [Zone, Hemisphere, Easting, Northing]; the result is
\* <<latitude, longitude>>.
UTM_ConvertToGeodetic(u, utmCoordinates) ==
    IF utmCoordinates.Zone < 1 \/ utmCoordinates.Zone > 60 THEN Err("zone out of range")
    ELSE IF /\ utmCoordinates.Hemisphere # HemisphereSouth
            /\ utmCoordinates.Hemisphere # HemisphereNorth
    THEN Err("hemisphere out of range")
    ELSE IF \/ FxLt(utmCoordinates.Easting, FxInt(utmMinEasting))
            \/ FxGt(utmCoordinates.Easting, FxInt(utmMaxEasting))
    THEN Err("easting out of range")
    ELSE IF \/ FxLt(utmCoordinates.Northing, FxInt(utmMinNorthing))
            \/ FxGt(utmCoordinates.Northing, FxInt(utmMaxNorthing))
    THEN Err("northing out of range")
    ELSE Then(TransverseMercator_convertToGeodetic(
                  u.transverseMercatorMap[utmCoordinates.Zone],
                  utmCoordinates.Easting,
                  FxSub(utmCoordinates.Northing,
                        FxInt(IF utmCoordinates.Hemisphere = HemisphereSouth
                              THEN 10000000 ELSE 0))),
              LAMBDA geodeticCoordinates :
                  IF utmResultingLatitudeOutOfRange(geodeticCoordinates[1])
                  THEN Err("latitude out of range ")
                  ELSE Ok(geodeticCoordinates))

(***************************************************************************)
(* ups.go                                                                  *)
(***************************************************************************)
\* The converter NewUPS returns: the errors of the two projection
\* constructors are dropped (lines 66-70); for WGS84 there are none.
NewUPS ==
    [UPSOriginLatitude |-> upsMaxOriginLat,
     polarStereographicMapN |-> NewPolarStereographicScaleFactor(HemisphereNorth),
     polarStereographicMapS |-> NewPolarStereographicScaleFactor(HemisphereSouth)]

\* A nil *PolarStereographic.
Nil == "nil"

\* Lines 66-70: the constructor's error is dropped, its nil result is kept.
upsProjectionOrNil(r) == IF IsOk(r) THEN r.val ELSE Nil

\* Lines 60-71, entered with the results of the two constructors.
upsOfProjections(n, s) ==
    IF n.kind = "untabulated" THEN n
    ELSE IF s.kind = "untabulated" THEN s
    ELSE Ok([UPSOriginLatitude |-> upsMaxOriginLat,
             polarStereographicMapN |-> upsProjectionOrNil(n),
             polarStereographicMapS |-> upsProjectionOrNil(s)])

\* Lines 51-72: NewUPS with its parameters, the flattening given by its
\* inverse.
NewUPSOf(ellipsoidSemiMajorAxis, invF) ==
    IF ~IsNaN(ellipsoidSemiMajorAxis) /\ FxLe(ellipsoidSemiMajorAxis, FxInt(0))
    THEN Err("Semi-major axis must be greater than zero")
    ELSE IF ~IsNaN(invF) /\ (FxLt(invF, FxInt(250)) \/ FxGt(invF, FxInt(350)))
    THEN Err("Inverse flattening must be between 250 and 350")
    ELSE upsOfProjections(
             MakePolarStereographicScaleFactor(ellipsoidSemiMajorAxis, invF, 0,
                                               Fx(0, 994000000), HemisphereNorth),
             MakePolarStereographicScaleFactor(ellipsoidSemiMajorAxis, invF, 0,
                                               Fx(0, 994000000), HemisphereSouth))

\* Lines 79-90: the argument checks of ConvertFromGeodetic.
upsFromGeodeticError(latitude, longitude) ==
    IF FxLt(latitude, FxNeg(upsMaxLat)) \/ FxGt(latitude, upsMaxLat)
    THEN "latitude out of range"
    ELSE IF FxLt(latitude, FxInt(0)) /\ FxGe(latitude, FxAdd(upsMaxSouthLat, epsilonRadiansUp))
    THEN "latitude out of range"
    ELSE IF FxGe(latitude, FxInt(0)) /\ FxLt(latitude, FxSub(upsMinNorthLat, epsilonRadians))
    THEN "latitude out of range"
    ELSE IF FxLt(longitude, FxInt(-180)) \/ FxGt(longitude, FxInt(360))
    THEN "longitude out of range"
    ELSE ""

\* Lines 93-102: the hemisphere of the call, a local variable.
upsHemisphereOf(latitude) ==
    IF FxLt(latitude, FxInt(0)) THEN HemisphereSouth ELSE HemisphereNorth

\* The projection a call would use if it chose it by the stored origin
\* latitude.
upsProjectionByOrigin(u, hemisphere) ==
    IF FxGe(u.UPSOriginLatitude, FxInt(0))
    THEN u.polarStereographicMapN ELSE u.polarStereographicMapS

\* Lines 97/101 and 146-150: the projection a call uses is chosen by the
\* call's own hemisphere.
upsProjectionFor(u, hemisphere) ==
    IF hemisphere = HemisphereNorth THEN u.polarStereographicMapN ELSE u.polarStereographicMapS

\* Lines 95/99 and 135-139: what a call stores in u.UPSOriginLatitude.
upsOriginLatitudeFor(hemisphere) ==
    IF hemisphere = HemisphereNorth THEN upsMaxOriginLat ELSE FxNeg(upsMaxOriginLat)

\* Lines 104-112: the error of the projection is dropped; a failed
\* projection leaves the zero MapCoords.
upsFromGeodeticResult(polarStereographic, hemisphere, latitude, longitude) ==
    With(PolarStereographic_ConvertFromGeodetic(polarStereographic, latitude, longitude),
         LAMBDA c :
             IF c.kind = "untabulated" THEN c
             ELSE Ok([Hemisphere |-> hemisphere,
                      Easting |-> IF IsOk(c) THEN c.val[1] ELSE FxInt(0),
                      Northing |-> IF IsOk(c) THEN c.val[2] ELSE FxInt(0)]))

\* The value ConvertFromGeodetic returns.
UPS_ConvertFromGeodetic(u, latitude, longitude) ==
    IF upsFromGeodeticError(latitude, longitude) # ""
    THEN Err(upsFromGeodeticError(latitude, longitude))
    ELSE upsFromGeodeticResult(upsProjectionFor(u, upsHemisphereOf(latitude)),
                               upsHemisphereOf(latitude), latitude, longitude)

\* The converter after ConvertFromGeodetic.
UPS_AfterConvertFromGeodetic(u, latitude, longitude) ==
    IF upsFromGeodeticError(latitude, longitude) # "" THEN u
    ELSE [u EXCEPT !.UPSOriginLatitude = upsOriginLatitudeFor(upsHemisphereOf(latitude))]

\* Lines 124-133: the argument checks of ConvertToGeodetic.
upsToGeodeticError(upsCoordinates) ==
    IF upsCoordinates.Hemisphere # HemisphereNorth /\ upsCoordinates.Hemisphere # HemisphereSouth
    THEN "hemisphere invalid"
    ELSE IF \/ FxLt(upsCoordinates.Easting, FxInt(upsMinEastNorth))
            \/ FxGt(upsCoordinates.Easting, FxInt(upsMaxEastNorth))
    THEN "easting out of range"
    ELSE IF \/ FxLt(upsCoordinates.Northing, FxInt(upsMinEastNorth))
            \/ FxGt(upsCoordinates.Northing, FxInt(upsMaxEastNorth))
    THEN "northing out of range"
    ELSE ""

\* The test of lines 158-163 without the margin epsilonRadians.
upsResultingLatitudeOutOfRangeNoEpsilon(latitude) ==
    \/ FxLt(latitude, FxInt(0)) /\ FxGe(latitude, upsMaxSouthLat)
    \/ FxGe(latitude, FxInt(0)) /\ FxLt(latitude, upsMinNorthLat)

\* Lines 158-163: the latitude the inverse projection found is in neither
\* polar band.
upsResultingLatitudeOutOfRange(latitude) ==
    \/ FxLt(latitude, FxInt(0)) /\ FxGe(latitude, FxAdd(upsMaxSouthLat, epsilonRadiansUp))
    \/ FxGe(latitude, FxInt(0)) /\ FxLt(latitude, FxSub(upsMinNorthLat, epsilonRadians))

\* Lines 151-165.
upsToGeodeticResult(polarStereographic, upsCoordinates) ==
    Then(PolarStereographic_ConvertToGeodetic(
             polarStereographic, upsCoordinates.Easting, upsCoordinates.Northing),
         LAMBDA g :
             IF upsResultingLatitudeOutOfRange(g[1])
             THEN Err("resulting latitude out of range")
             ELSE Ok(g))

\* The value ConvertToGeodetic returns: <<latitude, longitude>>.
UPS_ConvertToGeodetic(u, upsCoordinates) ==
    IF upsToGeodeticError(upsCoordinates) # "" THEN Err(upsToGeodeticError(upsCoordinates))
    ELSE upsToGeodeticResult(upsProjectionFor(u, upsCoordinates.Hemisphere), upsCoordinates)

\* The converter after ConvertToGeodetic.
UPS_AfterConvertToGeodetic(u, upsCoordinates) ==
    IF upsToGeodeticError(upsCoordinates) # "" THEN u
    ELSE [u EXCEPT !.UPSOriginLatitude = upsOriginLatitudeFor(upsCoordinates.Hemisphere)]

(***************************************************************************)
(* mgrs.go: the converter                                                  *)
(***************************************************************************)
NewMGRS(ellipsoidCode) ==
    Then(NewUTM2(ellipsoidCode, 0),
         LAMBDA utm : Ok([MGRSEllipsoidCode |-> ellipsoidCode,
                          ups |-> NewUPS,
                          utm |-> utm]))

\* math.Round-like variant: the nearest multiple of divisor, in whole
\* metres, for x >= 0.
mgrsRoundNearest(x, divisor) ==
    (GoInt(FxAdd(x, Fx(divisor \div 2, IF divisor = 1 THEN 500000000 ELSE 0))) \div divisor) * divisor

\* float64(int((x + espilon2) / divisor)) * divisor, in whole metres, for
\* x >= 0.
mgrsTruncate(x, divisor) == (GoInt(FxAdd(x, espilon2)) \div divisor) * divisor

\* Lines 339-352.  pad = espilon2 / 6378137.0 rad is 4.48e-9 degree.
mgrsNaturalZone(longitude) ==
    With(utmZoneOfPadded(longitude, FxAdd(longitude, Fx(0, 4))),
         LAMBDA z : IF z > 60 THEN 1 ELSE z)

\* Lines 354-365 and 395-407: the point converted again by a UTM converter
\* built with the override zone.
mgrsReconvert(m, override, latitude, longitude) ==
    Then(NewUTM2(m.MGRSEllipsoidCode, override),
         LAMBDA utmOverride : UTM_ConvertFromGeodetic(utmOverride, latitude, longitude, 0))

\* Lines 369-392: the zone to move to in the bands V and X, 0 for none.
mgrsSpecialOverride(letter, zone, easting) ==
    IF letter = letterV
    THEN IF zone = 31 /\ FxGe(easting, FxInt(500000)) THEN 32 ELSE 0
    ELSE IF letter = letterX
    THEN IF zone = 32 /\ FxLt(easting, FxInt(500000)) THEN 31
         ELSE IF \/ zone = 32 /\ FxGe(easting, FxInt(500000))
                 \/ zone = 34 /\ FxLt(easting, FxInt(500000)) THEN 33
         ELSE IF \/ zone = 34 /\ FxGe(easting, FxInt(500000))
                 \/ zone = 36 /\ FxLt(easting, FxInt(500000)) THEN 35
         ELSE IF zone = 36 /\ FxGe(easting, FxInt(500000)) THEN 37
         ELSE 0
    ELSE 0

\* The coordinates c, or the point converted again when override names a
\* zone.
mgrsReconvertUnlessZero(m, override, c, latitude, longitude) ==
    IF override = 0 THEN Ok(c) ELSE mgrsReconvert(m, override, latitude, longitude)

\* Lines 339-408 of fromUTM: the UTM coordinates the string is made from,
\* before they are truncated.
fromUTMCoordinates(m, utmCoordinates, longitude, latitude) ==
    Then(mgrsReconvertUnlessZero(
             m,
             IF utmCoordinates.Zone # mgrsNaturalZone(longitude)
             THEN mgrsNaturalZone(longitude) ELSE 0,
             utmCoordinates, latitude, longitude),
         LAMBDA c1 :
             mgrsReconvertUnlessZero(
                 m,
                 mgrsSpecialOverride(getLatitudeLetter(latitude).val, c1.Zone, c1.Easting),
                 c1, latitude, longitude))

\* The row letter counted through the alphabet without passing over I
\* and O.
mgrsRowLetterNoSkip(gridNorthing) == GoByte(gridNorthing \div 100000)

\* Lines 433-440: the row letter of a northing.
mgrsRowLetter(gridNorthing) ==
    LET r0 == GoByte(gridNorthing \div 100000)
        r1 == IF r0 > letterH THEN GoByte(r0 + 1) ELSE r0
    IN  IF r1 > letterN THEN GoByte(r1 + 1) ELSE r1

\* Lines 423-431.
mgrsGridNorthing(northing, patternOffset) ==
    IF (northing % 2000000) + patternOffset >= 2000000
    THEN (northing % 2000000) + patternOffset - 2000000
    ELSE (northing % 2000000) + patternOffset

\* The column letter counted from the easting 0 instead of 100000.
mgrsColumnLetterFromZero(ltr2LowValue, easting) ==
    LET k0 == GoByte(ltr2LowValue + (easting \div 100000))
    IN  IF ltr2LowValue = letterJ /\ k0 > letterN THEN GoByte(k0 + 1) ELSE k0

\* Lines 442-445: the column letter of an easting.
mgrsColumnLetter(ltr2LowValue, easting) ==
    LET k0 == GoByte(ltr2LowValue + ((easting \div 100000) - 1))
    IN  IF ltr2LowValue = letterJ /\ k0 > letterN THEN GoByte(k0 + 1) ELSE k0

\* Lines 420-445: the three letters, entered with the truncated easting
\* and northing.
fromUTMLetters(letter, g, easting, northing) ==
    <<letter,
      mgrsColumnLetter(g.ltr2LowValue, easting),
      mgrsRowLetter(mgrsGridNorthing(northing, g.patternOffset))>>

\* Lines 420-451, entered with the truncated easting and northing.
mgrsStringOf(zone, letter, g, easting, northing, precision) ==
    makeMGRSString(zone, fromUTMLetters(letter, g, easting, northing),
                   easting, northing, precision)

\* Lines 415-418: a truncated northing of 10000000 at or below the equator
\* is 0.
mgrsEquatorNorthing(latitude, northing) ==
    IF FxLe(latitude, FxInt(0)) /\ northing = 10000000 THEN 0 ELSE northing

\* Lines 410-451 of fromUTM.
fromUTMString(m, letter, c, latitude, precision) ==
    mgrsStringOf(c.Zone, letter, getGridValues(m.MGRSEllipsoidCode, c.Zone),
                 mgrsTruncate(c.Easting, computeScale(precision)),
                 mgrsEquatorNorthing(latitude, mgrsTruncate(c.Northing, computeScale(precision))),
                 precision)

\* A latitude with no band letter ends the call with "" and no error
\* (line 336).
MGRS_fromUTM(m, utmCoordinates, longitude, latitude, precision) ==
    IF ~IsOk(getLatitudeLetter(latitude)) THEN Ok(<<>>)
    ELSE Then(fromUTMCoordinates(m, utmCoordinates, longitude, latitude),
              LAMBDA c : fromUTMString(m, getLatitudeLetter(latitude).val, c,
                                       latitude, precision))

\* x / 100000 truncated toward zero.
DivTowardZero(x) == IF x < 0 THEN 0 - ((0 - x) \div 100000) ELSE x \div 100000

\* byte(x / 100000) of a float64 x that may be negative: what amd64 gives
\* (the low byte of the truncated quotient).
upsLetterByte(x) == GoByte(DivTowardZero(x))

\* Lines 259-275: the first letter.
upsFirstLetter(hemisphere, easting) ==
    IF hemisphere = HemisphereNorth
    THEN (IF easting >= 2000000 THEN letterZ ELSE letterY)
    ELSE (IF easting >= 2000000 THEN letterB ELSE letterA)

\* Lines 282-292: the third letter.
upsRowLetter(r0) ==
    LET r1 == IF r0 > letterH THEN GoByte(r0 + 1) ELSE r0
    IN  IF r1 > letterN THEN GoByte(r1 + 1) ELSE r1

\* Lines 299-304: the second letter west of the pole.
upsWestLetter(c0) ==
    LET w1 == IF c0 > letterL THEN GoByte(c0 + 3) ELSE c0
    IN  IF w1 > letterU THEN GoByte(w1 + 2) ELSE w1

\* Lines 306-314: the second letter east of the pole.
upsEastLetter(c0) ==
    LET e1 == IF c0 > letterC THEN GoByte(c0 + 2) ELSE c0
        e2 == IF e1 > letterH THEN GoByte(e1 + 1) ELSE e1
    IN  IF e2 > letterL THEN GoByte(e2 + 3) ELSE e2

\* Lines 282-315: the three letters, entered with the first letter and its
\* constants.
fromUPSLetters(letter, k, easting, northing) ==
    <<letter,
      IF easting < 2000000
      THEN upsWestLetter(GoByte(k.ltr2LowValue + DivTowardZero(easting - k.falseEasting)))
      ELSE upsEastLetter(GoByte(k.ltr2LowValue + DivTowardZero(easting - k.falseEasting))),
      upsRowLetter(upsLetterByte(northing - k.falseNorthing))>>

\* Lines 282-322, entered with the first letter and its constants.
upsStringOf(letter, k, easting, northing, precision) ==
    makeMGRSString(0, fromUPSLetters(letter, k, easting, northing),
                   easting, northing, precision)

\* Lines 255-322, entered with the truncated easting and northing.
upsStringOfTruncated(hemisphere, easting, northing, precision) ==
    With(upsFirstLetter(hemisphere, easting), LAMBDA letter :
        upsStringOf(letter,
                    upsConstants[(IF hemisphere = HemisphereNorth THEN letter - 22 ELSE letter) + 1],
                    easting, northing, precision))

MGRS_fromUPS(m, upsCoordinates, precision) ==
    upsStringOfTruncated(upsCoordinates.Hemisphere,
                         mgrsTruncate(upsCoordinates.Easting, computeScale(precision)),
                         mgrsTruncate(upsCoordinates.Northing, computeScale(precision)),
                         precision)

\* The path test without its upper limit: every latitude from 80 degrees
\* south to the pole goes to UTM.
mgrsNonPolarNoUpperLimit(latitude) ==
    FxGe(latitude, FxSub(minMGRSNonPolarLat, epsilonRadians))

\* TRUE when ConvertFromGeodetic takes the UTM path (lines 162-163).
mgrsNonPolar(latitude) ==
    /\ FxGe(latitude, FxSub(minMGRSNonPolarLat, epsilonRadians))
    /\ FxLt(latitude, FxAdd(maxMGRSNonPolarLat, epsilonRadiansUp))

\* The value ConvertFromGeodetic returns: the MGRS string.
MGRS_ConvertFromGeodetic(m, latitude, longitude, precision) ==
    IF FxLt(latitude, FxInt(-90)) \/ FxGt(latitude, FxInt(90))
    THEN Err("latitude out of range")
    ELSE IF \/ FxLt(longitude, FxSub(FxInt(-180), epsilonRadians))
            \/ FxGt(longitude, FxAdd(FxInt(360), epsilonRadians))
    THEN Err("longitude out of range")
    ELSE IF precision < 0 \/ precision > mgrsMaxPrecision
    THEN Err("precision out of range")
    ELSE IF mgrsNonPolar(latitude)
    THEN Then(UTM_ConvertFromGeodetic(m.utm, latitude, longitude, 0),
              LAMBDA utmCoordinates :
                  MGRS_fromUTM(m, utmCoordinates, longitude, latitude, precision))
    ELSE Then(UPS_ConvertFromGeodetic(m.ups, latitude, longitude),
              LAMBDA upsCoordinates : MGRS_fromUPS(m, upsCoordinates, precision))

\* The converter after ConvertFromGeodetic: only the polar path writes.
MGRS_AfterConvertFromGeodetic(m, latitude, longitude, precision) ==
    IF \/ FxLt(latitude, FxInt(-90)) \/ FxGt(latitude, FxInt(90))
       \/ FxLt(longitude, FxSub(FxInt(-180), epsilonRadians))
       \/ FxGt(longitude, FxAdd(FxInt(360), epsilonRadians))
       \/ precision < 0 \/ precision > mgrsMaxPrecision
       \/ mgrsNonPolar(latitude)
    THEN m
    ELSE [m EXCEPT !.ups = UPS_AfterConvertFromGeodetic(m.ups, latitude, longitude)]

\* Lines 195-209: the argument checks of ConvertFromUTM, "" when they pass.
fromUTMArgumentError(utmCoordinates, precision) ==
    IF utmCoordinates.Zone < 1 \/ utmCoordinates.Zone > 60 THEN "zone out of range"
    ELSE IF /\ utmCoordinates.Hemisphere # HemisphereSouth
            /\ utmCoordinates.Hemisphere # HemisphereNorth
    THEN "hemisphere out of range"
    ELSE IF \/ FxLt(utmCoordinates.Easting, FxInt(mgrsMinEasting))
            \/ FxGt(utmCoordinates.Easting, FxInt(mgrsMaxEasting))
    THEN "esating out of range"
    ELSE IF \/ FxLt(utmCoordinates.Northing, FxInt(mgrsMinNorthing))
            \/ FxGt(utmCoordinates.Northing, FxInt(mgrsMaxNorthing))
    THEN "northing out of range"
    ELSE IF precision < 0 \/ precision > mgrsMaxPrecision THEN "precision out of range"
    ELSE ""

\* Lines 219-240, entered with the point ConvertToGeodetic found.
fromUTMGeodetic(m, utmCoordinates, geodeticCoordinates, precision) ==
    IF mgrsNonPolar(geodeticCoordinates[1])
    THEN MGRS_fromUTM(m, utmCoordinates, geodeticCoordinates[2], geodeticCoordinates[1],
                      precision)
    ELSE Then(UPS_ConvertFromGeodetic(m.ups, geodeticCoordinates[1], geodeticCoordinates[2]),
              LAMBDA upsCoordinates : MGRS_fromUPS(m, upsCoordinates, precision))

\* The value ConvertFromUTM returns: the MGRS string.
MGRS_ConvertFromUTM(m, utmCoordinates, precision) ==
    With(fromUTMArgumentError(utmCoordinates, precision), LAMBDA e :
        IF e # "" THEN Err(e)
        ELSE Then(UTM_ConvertToGeodetic(m.utm, utmCoordinates),
                  LAMBDA geodeticCoordinates :
                      fromUTMGeodetic(m, utmCoordinates, geodeticCoordinates, precision)))

\* The converter after ConvertFromUTM: only the polar path writes (line 230).
MGRS_AfterConvertFromUTM(m, utmCoordinates, precision) ==
    IF fromUTMArgumentError(utmCoordinates, precision) # "" THEN m
    ELSE With(UTM_ConvertToGeodetic(m.utm, utmCoordinates), LAMBDA g :
             IF ~IsOk(g) \/ mgrsNonPolar(g.val[1]) THEN m
             ELSE [m EXCEPT !.ups = UPS_AfterConvertFromGeodetic(m.ups, g.val[1], g.val[2])])

\* Lines 714-717: the easting of the column letter.
toUTMGridEasting(ltr2LowValue, letter) ==
    IF ltr2LowValue = letterJ /\ letter > letterO
    THEN GoByte(letter - ltr2LowValue + 1) * 100000 - 100000
    ELSE GoByte(letter - ltr2LowValue + 1) * 100000

\* The northing of the row letter counted without the letter I.
toUTMRowLetterNorthingCountingI(letter) ==
    LET r1 == IF letter > letterO THEN letter * 100000 - 100000 ELSE letter * 100000
    IN  IF r1 >= 2000000 THEN r1 - 2000000 ELSE r1

\* Lines 719-730: the northing of the row letter.
toUTMRowLetterNorthing(letter) ==
    LET r1 == IF letter > letterO THEN letter * 100000 - 100000 ELSE letter * 100000
        r2 == IF letter > letterI THEN r1 - 100000 ELSE r1
    IN  IF r2 >= 2000000 THEN r2 - 2000000 ELSE r2

\* The northing of the grid square without the offset of the band: the
\* first 2000000 m cycle of the row letters.
toUTMGridNorthingFirstCycle(g0, band) == IF g0 < 0 THEN g0 + 2000000 ELSE g0

\* Lines 737-746: the northing of the grid square in the band.
toUTMGridNorthing(g0, band) ==
    LET g2 == (IF g0 < 0 THEN g0 + 2000000 ELSE g0) + band.northingOffset
    IN  IF g2 < band.minNorthing THEN g2 + 2000000 ELSE g2

\* Lines 697-755 of toUTM: the UTM coordinates named by the letters and the
\* digits, in whole metres.
toUTMCoordinatesOf(g, band, zone, letters, easting, northing) ==
    [Zone |-> zone,
     Hemisphere |-> IF letters[1] < letterN THEN HemisphereSouth ELSE HemisphereNorth,
     Easting |-> FxInt(toUTMGridEasting(g.ltr2LowValue, letters[2]) + easting),
     Northing |-> FxInt(toUTMGridNorthing(toUTMRowLetterNorthing(letters[3]) - g.patternOffset,
                                          band)
                        + northing)]

\* 100000 / computeScale(precision) is 10^precision: the border
\* math.Pi/180/divisor is 10^-precision degree.
toUTMBorder(precision) == IF precision = 0 THEN FxInt(1) ELSE Fx(0, Pow10(9 - precision))

\* The band before letter (lines 773-786).
toUTMPrevBand(letter) ==
    With(IF letter = letterC THEN letter ELSE letter - 1,
         LAMBDA p0 : IF p0 = letterI \/ p0 = letterO THEN p0 - 1 ELSE p0)

\* The band after letter (lines 774-790).
toUTMNextBand(letter) ==
    With(IF letter = letterX THEN letter ELSE letter + 1,
         LAMBDA n0 : IF n0 = letterI \/ n0 = letterO THEN n0 + 1 ELSE n0)

\* Lines 792-805, entered with the answers for the two neighbours.
toUTMNeighbourCheck(inPrev, inNext) ==
    IF ~IsOk(inPrev) THEN "invalid MGRS"
    ELSE IF ~IsOk(inNext) THEN "invalid MGRS"
    ELSE IF inPrev.val /\ inNext.val THEN ""
    ELSE "MGRS invalid"

\* Lines 766-806: the latitude is in the band of the first letter, or in
\* both of its neighbours.
toUTMBandCheck(letter, latitude, border) ==
    IF inLatitudeRange(letter, latitude, border).val THEN ""
    ELSE toUTMNeighbourCheck(inLatitudeRange(toUTMPrevBand(letter), latitude, border),
                             inLatitudeRange(toUTMNextBand(letter), latitude, border))

\* Lines 757-807, entered with the UTM coordinates.
toUTMChecked(m, utmCoordinates, letter, precision) ==
    Then(UTM_ConvertToGeodetic(m.utm, utmCoordinates),
         LAMBDA geodeticCoordinates :
             With(toUTMBandCheck(letter, geodeticCoordinates[1], toUTMBorder(precision)),
                  LAMBDA check : IF check # "" THEN Err(check) ELSE Ok(utmCoordinates)))

\* Lines 703-755, entered with the grid values of the zone: the UTM
\* coordinates before the check of the band.
toUTMUnchecked(g, zone, letters, easting, northing) ==
    IF \/ letters[2] < GoByte(g.ltr2LowValue)
       \/ letters[2] > GoByte(g.ltr2HighValue)
       \/ letters[3] > letterV
    THEN Err("invalid letters")
    ELSE Then(getLatitudeBandMinNorthing(letters[1]),
              LAMBDA band : Ok(toUTMCoordinatesOf(g, band, zone, letters, easting, northing)))

\* Lines 703-807, entered with the grid values of the zone.
toUTMWithGridValues(m, g, zone, letters, easting, northing, precision) ==
    Then(toUTMUnchecked(g, zone, letters, easting, northing),
         LAMBDA c : toUTMChecked(m, c, letters[1], precision))

MGRS_toUTM(m, zone, letters, easting, northing, precision) ==
    IF letters[1] = letterX /\ zone \in {32, 34, 36} THEN Err("invalid letters")
    ELSE IF letters[1] = letterV /\ zone = 31 /\ letters[2] > letterD
    THEN Err("invalid letters")
    ELSE toUTMWithGridValues(m, getGridValues(m.MGRSEllipsoidCode, zone),
                             zone, letters, easting, northing, precision)

\* Lines 876-883: the northing of the third letter.
toUPSGridNorthing(letter, falseNorthing) ==
    LET n1 == IF letter > letterI
              THEN letter * 100000 + falseNorthing - 100000
              ELSE letter * 100000 + falseNorthing
    IN  IF letter > letterO THEN n1 - 100000 ELSE n1

\* Lines 887-893: the easting of the second letter west of the pole.
toUPSWestEasting(letter, e0) ==
    LET w1 == IF letter > letterL THEN e0 - 300000 ELSE e0
    IN  IF letter > letterU THEN w1 - 200000 ELSE w1

\* Lines 895-905: the easting of the second letter east of the pole.
toUPSEastEasting(letter, e0) ==
    LET a1 == IF letter > letterC THEN e0 - 200000 ELSE e0
        a2 == IF letter > letterI THEN a1 - 100000 ELSE a1
    IN  IF letter > letterL THEN a2 - 300000 ELSE a2

\* Lines 866-914, entered with the constants of the first letter.
toUPSWithConstants(k, north, letters, easting, northing) ==
    IF \/ letters[2] < k.ltr2LowValue \/ letters[2] > k.ltr2HighValue
       \/ letters[2] \in {letterD, letterE, letterM, letterN, letterV, letterW}
       \/ letters[3] > k.ltr3HighValue
    THEN Err("Invalid MGRS string")
    ELSE Ok([Hemisphere |-> IF north THEN HemisphereNorth ELSE HemisphereSouth,
             Easting |-> FxInt((IF k.ltr2LowValue # letterA
                                THEN toUPSWestEasting(
                                         letters[2],
                                         (letters[2] - k.ltr2LowValue) * 100000 + k.falseEasting)
                                ELSE toUPSEastEasting(
                                         letters[2],
                                         (letters[2] - k.ltr2LowValue) * 100000 + k.falseEasting))
                               + easting),
             Northing |-> FxInt(toUPSGridNorthing(letters[3], k.falseNorthing) + northing)])

MGRS_toUPS(m, letters, easting, northing) ==
    IF letters[1] \notin {letterY, letterZ, letterA, letterB}
    THEN Err("Invalid MGRS string")
    ELSE toUPSWithConstants(
             upsConstants[(IF letters[1] \in {letterY, letterZ}
                           THEN letters[1] - 22 ELSE letters[1]) + 1],
             letters[1] \in {letterY, letterZ},
             letters, easting, northing)

\* The decoder choosing its path by the first letter, whatever the zone.
mgrsDecodeBrokenByLetter(m, b) ==
    IF b.letters[1] \notin {letterA, letterB, letterY, letterZ}
    THEN Then(MGRS_toUTM(m, b.zone, b.letters, b.easting, b.northing, b.precision),
              LAMBDA utmCoordinates : UTM_ConvertToGeodetic(m.utm, utmCoordinates))
    ELSE Then(MGRS_toUPS(m, b.letters, b.easting, b.northing),
              LAMBDA upsCoordinates : UPS_ConvertToGeodetic(m.ups, upsCoordinates))

\* Lines 661-681, after breakMGRSString has succeeded with b.
mgrsDecodeBroken(m, b) ==
    IF b.zone # 0
    THEN Then(MGRS_toUTM(m, b.zone, b.letters, b.easting, b.northing, b.precision),
              LAMBDA utmCoordinates : UTM_ConvertToGeodetic(m.utm, utmCoordinates))
    ELSE Then(MGRS_toUPS(m, b.letters, b.easting, b.northing),
              LAMBDA upsCoordinates : UPS_ConvertToGeodetic(m.ups, upsCoordinates))

\* The value ConvertToGeodetic returns: <<latitude, longitude>>, an error,
\* or the panic of breakMGRSString.
MGRS_ConvertToGeodetic(m, mgrsorUSNGCoordinates) ==
    Then(breakMGRSString(mgrsorUSNGCoordinates), LAMBDA b : mgrsDecodeBroken(m, b))

\* Lines 671-680: the converter after a string has been broken into b.
mgrsAfterDecodeBroken(m, b) ==
    IF b.zone # 0 THEN m
    ELSE With(MGRS_toUPS(m, b.letters, b.easting, b.northing),
              LAMBDA c : IF ~IsOk(c) THEN m
                         ELSE [m EXCEPT !.ups = UPS_AfterConvertToGeodetic(m.ups, c.val)])

\* The converter after ConvertToGeodetic: only the polar path writes.
MGRS_AfterConvertToGeodetic(m, mgrsorUSNGCoordinates) ==
    With(breakMGRSString(mgrsorUSNGCoordinates),
         LAMBDA b : IF IsOk(b) THEN mgrsAfterDecodeBroken(m, b.val) ELSE m)

(***************************************************************************)
(* State                                                                   *)
(***************************************************************************)
VARIABLES
    mgrs,            \* the MGRS converter, with the UTM and UPS converters it owns
    geodetic,        \* the point a round trip starts from: <<latitude, longitude>>
    precision,       \* the precision of the MGRS round trip
    mgrsString,      \* what MGRS.ConvertFromGeodetic returned
    encodedUTM,      \* the UTM coordinates that call made the string from
    mgrsGeodetic,    \* what MGRS.ConvertToGeodetic returned for that string
    decodedUTM,      \* the UTM coordinates that call read from the string
    utmCoordinates,  \* what UTM.ConvertFromGeodetic returned
    utmGeodetic,     \* what UTM.ConvertToGeodetic returned for that coordinate
    upsCoordinates,  \* what UPS.ConvertFromGeodetic returned
    upsGeodetic,     \* what UPS.ConvertToGeodetic returned for that coordinate
    input,           \* the string given to the decoder
    broken,          \* what breakMGRSString returned for it
    decoded,         \* what MGRS.ConvertToGeodetic returned for it
    pc,              \* per goroutine: its position in the call it runs
    call,            \* per goroutine: the call it runs
    ret,             \* per goroutine: what the call returned
    request,         \* the call a caller makes on its own: the operation and its arguments
    response         \* what that call returned, and what it computed on the way

roundTripVars == <<geodetic, precision, mgrsString, encodedUTM, mgrsGeodetic, decodedUTM,
                   utmCoordinates, utmGeodetic, upsCoordinates, upsGeodetic>>

decoderVars == <<input, broken, decoded>>

goroutineVars == <<pc, call, ret>>

apiVars == <<request, response>>

vars == <<mgrs, roundTripVars, decoderVars, goroutineVars, apiVars>>

\* The goroutines that share the converter.
NumGoroutines == 2

Goroutines == 1..NumGoroutines

NoCall == [op |-> "", lat |-> <<0, 0>>, lon |-> <<0, 0>>, precision |-> 0,
           coordinates |-> [Hemisphere |-> 0, Easting |-> <<0, 0>>, Northing |-> <<0, 0>>],
           string |-> <<>>]

\* mgrs.go 110-138 with the WGS84 code, as the tests build it.
FreshMGRS == NewMGRS("WE").val

RoundTripIdle ==
    /\ geodetic = <<<<0, 0>>, <<0, 0>>>>
    /\ precision = 0
    /\ mgrsString = None /\ encodedUTM = None
    /\ mgrsGeodetic = None /\ decodedUTM = None
    /\ utmCoordinates = None /\ utmGeodetic = None
    /\ upsCoordinates = None /\ upsGeodetic = None

DecoderIdle == input = <<>> /\ broken = None /\ decoded = None

GoroutinesIdle ==
    /\ pc = [g \in Goroutines |-> "idle"]
    /\ call = [g \in Goroutines |-> NoCall]
    /\ ret = [g \in Goroutines |-> None]

NoRequest == [op |-> ""]

ApiIdle == request = NoRequest /\ response = [result |-> None]

(***************************************************************************)
(* Round trips: one point, through MGRS, UTM and UPS                       *)
(***************************************************************************)
\* The UTM coordinates fromUTM truncates (what lines 339-408 leave), when
\* ConvertFromGeodetic takes the UTM path and reaches them.
MGRS_encodedUTM(m, latitude, longitude, n) ==
    IF MGRS_ConvertFromGeodetic(m, latitude, longitude, n).kind # "ok" THEN None
    ELSE IF ~mgrsNonPolar(latitude) \/ ~IsOk(getLatitudeLetter(latitude)) THEN None
    ELSE Then(UTM_ConvertFromGeodetic(m.utm, latitude, longitude, 0),
              LAMBDA c : fromUTMCoordinates(m, c, longitude, latitude))

\* The UTM coordinates toUTM returns to ConvertToGeodetic (line 662), when
\* the string has a zone.
MGRS_decodedUTM(m, mgrsorUSNGCoordinates) ==
    With(breakMGRSString(mgrsorUSNGCoordinates),
         LAMBDA b : IF IsOk(b) /\ b.val.zone # 0
                    THEN MGRS_toUTM(m, b.val.zone, b.val.letters, b.val.easting,
                                    b.val.northing, b.val.precision)
                    ELSE None)

InitRT ==
    /\ mgrs = FreshMGRS
    /\ geodetic \in GeodeticSamples
    /\ precision \in 0..mgrsMaxPrecision
    /\ mgrsString = None /\ encodedUTM = None
    /\ mgrsGeodetic = None /\ decodedUTM = None
    /\ utmCoordinates = None /\ utmGeodetic = None
    /\ upsCoordinates = None /\ upsGeodetic = None
    /\ DecoderIdle
    /\ GoroutinesIdle
    /\ ApiIdle

RT_MGRSConvertFromGeodetic ==
    /\ mgrsString = None
    /\ mgrsString' = MGRS_ConvertFromGeodetic(mgrs, geodetic[1], geodetic[2], precision)
    /\ encodedUTM' = MGRS_encodedUTM(mgrs, geodetic[1], geodetic[2], precision)
    /\ mgrs' = MGRS_AfterConvertFromGeodetic(mgrs, geodetic[1], geodetic[2], precision)
    /\ UNCHANGED <<geodetic, precision, mgrsGeodetic, decodedUTM, utmCoordinates, utmGeodetic,
                   upsCoordinates, upsGeodetic, decoderVars, goroutineVars, apiVars>>

RT_MGRSConvertToGeodetic ==
    /\ IsOk(mgrsString)
    /\ mgrsGeodetic = None
    /\ mgrsGeodetic' = MGRS_ConvertToGeodetic(mgrs, mgrsString.val)
    /\ decodedUTM' = MGRS_decodedUTM(mgrs, mgrsString.val)
    /\ mgrs' = MGRS_AfterConvertToGeodetic(mgrs, mgrsString.val)
    /\ UNCHANGED <<geodetic, precision, mgrsString, encodedUTM, utmCoordinates, utmGeodetic,
                   upsCoordinates, upsGeodetic, decoderVars, goroutineVars, apiVars>>

RT_UTMConvertFromGeodetic ==
    /\ utmCoordinates = None
    /\ utmCoordinates' = UTM_ConvertFromGeodetic(mgrs.utm, geodetic[1], geodetic[2], 0)
    /\ UNCHANGED <<mgrs, geodetic, precision, mgrsString, encodedUTM, mgrsGeodetic, decodedUTM,
                   utmGeodetic, upsCoordinates, upsGeodetic, decoderVars, goroutineVars, apiVars>>

RT_UTMConvertToGeodetic ==
    /\ IsOk(utmCoordinates)
    /\ utmGeodetic = None
    /\ utmGeodetic' = UTM_ConvertToGeodetic(mgrs.utm, utmCoordinates.val)
    /\ UNCHANGED <<mgrs, geodetic, precision, mgrsString, encodedUTM, mgrsGeodetic, decodedUTM,
                   utmCoordinates, upsCoordinates, upsGeodetic, decoderVars, goroutineVars, apiVars>>

RT_UPSConvertFromGeodetic ==
    /\ upsCoordinates = None
    /\ upsCoordinates' = UPS_ConvertFromGeodetic(mgrs.ups, geodetic[1], geodetic[2])
    /\ mgrs' = [mgrs EXCEPT !.ups = UPS_AfterConvertFromGeodetic(mgrs.ups, geodetic[1], geodetic[2])]
    /\ UNCHANGED <<geodetic, precision, mgrsString, encodedUTM, mgrsGeodetic, decodedUTM,
                   utmCoordinates, utmGeodetic, upsGeodetic, decoderVars, goroutineVars, apiVars>>

RT_UPSConvertToGeodetic ==
    /\ IsOk(upsCoordinates)
    /\ upsGeodetic = None
    /\ upsGeodetic' = UPS_ConvertToGeodetic(mgrs.ups, upsCoordinates.val)
    /\ mgrs' = [mgrs EXCEPT !.ups = UPS_AfterConvertToGeodetic(mgrs.ups, upsCoordinates.val)]
    /\ UNCHANGED <<geodetic, precision, mgrsString, encodedUTM, mgrsGeodetic, decodedUTM,
                   utmCoordinates, utmGeodetic, upsCoordinates, decoderVars, goroutineVars, apiVars>>

NextRT ==
    \/ RT_MGRSConvertFromGeodetic
    \/ RT_MGRSConvertToGeodetic
    \/ RT_UTMConvertFromGeodetic
    \/ RT_UTMConvertToGeodetic
    \/ RT_UPSConvertFromGeodetic
    \/ RT_UPSConvertToGeodetic

SpecRT == InitRT /\ [][NextRT]_vars

(***************************************************************************)
(* The decoder, on strings of every shape                                  *)
(***************************************************************************)
\* The longest string taken from the whole alphabet.
MaxLen == 4

\* '1' '3' 'A' 'N' 'Z', U+0141 (its low byte is 'A'), and the space.
Alphabet == {49, 51, 65, 78, 90, 321, 32}

\* Code points inserted in the base strings: space, '-', U+0141, U+0131
\* (its low byte is '1'), U+00E9, 'I', '7', 'B'.
InsertedCodePoints == {32, 45, 321, 305, 233, 73, 55, 66}

InsertAt(s, i, r) == SubSeq(s, 1, i) \o <<r>> \o SubSeq(s, i + 1, Len(s))

ToLower(s) == [k \in 1..Len(s) |-> IF s[k] >= 65 /\ s[k] <= 90 THEN s[k] + 32 ELSE s[k]]

DecoderInputs ==
    UNION {[1..k -> Alphabet] : k \in 0..MaxLen}
    \cup BaseStrings
    \cup {ToLower(b) : b \in BaseStrings}
    \cup UNION {{InsertAt(b, i, r) : i \in 0..Len(b), r \in InsertedCodePoints} : b \in BaseStrings}

InitBreak ==
    /\ mgrs = FreshMGRS
    /\ input \in DecoderInputs
    /\ broken = None
    /\ decoded = None
    /\ RoundTripIdle
    /\ GoroutinesIdle
    /\ ApiIdle

Break_breakMGRSString ==
    /\ broken = None
    /\ broken' = breakMGRSString(input)
    /\ UNCHANGED <<mgrs, roundTripVars, input, decoded, goroutineVars, apiVars>>

Break_ConvertToGeodetic ==
    /\ decoded = None
    /\ decoded' = MGRS_ConvertToGeodetic(mgrs, input)
    /\ mgrs' = MGRS_AfterConvertToGeodetic(mgrs, input)
    /\ UNCHANGED <<roundTripVars, input, broken, goroutineVars, apiVars>>

NextBreak ==
    \/ Break_breakMGRSString
    \/ Break_ConvertToGeodetic

SpecBreak == InitBreak /\ [][NextBreak]_vars

(***************************************************************************)
(* Goroutines that share one converter                                     *)
(***************************************************************************)
\* The points the calls are made with: one per polar cap and one on the
\* UTM path, which the UPS converter refuses.
ConcPoints ==
    {<<FxInt(85), FxInt(10)>>, <<FxInt(-85), FxInt(10)>>, <<FxInt(0), FxInt(0)>>}

\* The precision of the MGRS calls.
ConcPrecision == mgrsMaxPrecision

UPSFromCall(p) == [NoCall EXCEPT !.op = "UPS.ConvertFromGeodetic", !.lat = p[1], !.lon = p[2]]

UPSToCall(c) == [NoCall EXCEPT !.op = "UPS.ConvertToGeodetic", !.coordinates = c]

MGRSFromCall(p) ==
    [NoCall EXCEPT !.op = "MGRS.ConvertFromGeodetic", !.lat = p[1], !.lon = p[2],
                   !.precision = ConcPrecision]

MGRSToCall(s) == [NoCall EXCEPT !.op = "MGRS.ConvertToGeodetic", !.string = s]

\* The UPS coordinates of the two polar points, and a coordinate with no
\* hemisphere.
ConcCoordinates ==
    {[Hemisphere |-> HemisphereNorth,
      Easting |-> Fx(2096454, 163785228), Northing |-> Fx(1452981, 254498402)],
     [Hemisphere |-> HemisphereSouth,
      Easting |-> Fx(2096454, 163785228), Northing |-> Fx(2547018, 745501597)],
     NoCall.coordinates}

\* The MGRS strings of the points at that precision: "ZAB9645452981",
\* "BAT9645447018" and "31NAA6602100000".
ConcStrings ==
    {<<90, 65, 66, 57, 54, 52, 53, 52, 53, 50, 57, 56, 49>>,
     <<66, 65, 84, 57, 54, 52, 53, 52, 52, 55, 48, 49, 56>>,
     <<51, 49, 78, 65, 65, 54, 54, 48, 50, 49, 48, 48, 48, 48, 48>>}

ConcCalls ==
    {UPSFromCall(p) : p \in ConcPoints}
    \cup {UPSToCall(c) : c \in ConcCoordinates}
    \cup {MGRSFromCall(p) : p \in ConcPoints}
    \cup {MGRSToCall(s) : s \in ConcStrings}

\* What call c returns when it runs on the converter m.
CallResult(m, c) ==
    CASE c.op = "UPS.ConvertFromGeodetic" -> UPS_ConvertFromGeodetic(m.ups, c.lat, c.lon)
      [] c.op = "UPS.ConvertToGeodetic" -> UPS_ConvertToGeodetic(m.ups, c.coordinates)
      [] c.op = "MGRS.ConvertFromGeodetic" ->
             MGRS_ConvertFromGeodetic(m, c.lat, c.lon, c.precision)
      [] c.op = "MGRS.ConvertToGeodetic" -> MGRS_ConvertToGeodetic(m, c.string)

\* The converter after call c has run on m with no other call in between.
CallAfter(m, c) ==
    CASE c.op = "UPS.ConvertFromGeodetic" ->
             [m EXCEPT !.ups = UPS_AfterConvertFromGeodetic(m.ups, c.lat, c.lon)]
      [] c.op = "UPS.ConvertToGeodetic" ->
             [m EXCEPT !.ups = UPS_AfterConvertToGeodetic(m.ups, c.coordinates)]
      [] c.op = "MGRS.ConvertFromGeodetic" ->
             MGRS_AfterConvertFromGeodetic(m, c.lat, c.lon, c.precision)
      [] c.op = "MGRS.ConvertToGeodetic" -> MGRS_AfterConvertToGeodetic(m, c.string)

\* A value no call stores in UPSOriginLatitude.
NotStored == FxInt(0)

\* What call c stores in UPSOriginLatitude (ups.go 95, 99, 136, 138), or
\* NotStored when c returns before the assignment: the field after c has
\* run on a converter whose field held NotStored.
CallStores(c) ==
    CallAfter([FreshMGRS EXCEPT !.ups.UPSOriginLatitude = NotStored], c).ups.UPSOriginLatitude

InitConc ==
    /\ mgrs = FreshMGRS
    /\ RoundTripIdle
    /\ DecoderIdle
    /\ GoroutinesIdle
    /\ ApiIdle

\* Goroutine g enters call c.  A call that returns before the assignment to
\* UPSOriginLatitude reads nothing another goroutine writes: it is one step.
Call(g, c) ==
    /\ pc[g] = "idle"
    /\ call' = [call EXCEPT ![g] = c]
    /\ pc' = [pc EXCEPT ![g] = IF CallStores(c) = NotStored THEN "done" ELSE "write"]
    /\ ret' = [ret EXCEPT ![g] = IF CallStores(c) = NotStored THEN CallResult(mgrs, c) ELSE None]
    /\ UNCHANGED <<mgrs, roundTripVars, decoderVars, apiVars>>

\* ups.go 95, 99, 136, 138: the unsynchronised store to the shared field.
WriteOrigin(g) ==
    /\ pc[g] = "write"
    /\ mgrs' = [mgrs EXCEPT !.ups.UPSOriginLatitude = CallStores(call[g])]
    /\ pc' = [pc EXCEPT ![g] = "project"]
    /\ UNCHANGED <<roundTripVars, decoderVars, call, ret, apiVars>>

\* ups.go 104-112 and 151-165, and what the MGRS caller does with the
\* result: the rest of the call, on the converter as it is now.
Project(g) ==
    /\ pc[g] = "project"
    /\ ret' = [ret EXCEPT ![g] = CallResult(mgrs, call[g])]
    /\ pc' = [pc EXCEPT ![g] = "done"]
    /\ UNCHANGED <<mgrs, roundTripVars, decoderVars, call, apiVars>>

\* The caller takes the result; the goroutine is free for its next call.
Return(g) ==
    /\ pc[g] = "done"
    /\ pc' = [pc EXCEPT ![g] = "idle"]
    /\ call' = [call EXCEPT ![g] = NoCall]
    /\ ret' = [ret EXCEPT ![g] = None]
    /\ UNCHANGED <<mgrs, roundTripVars, decoderVars, apiVars>>

NextConc ==
    \/ \E g \in Goroutines, c \in ConcCalls : Call(g, c)
    \/ \E g \in Goroutines : WriteOrigin(g)
    \/ \E g \in Goroutines : Project(g)
    \/ \E g \in Goroutines : Return(g)

SpecConc == InitConc /\ [][NextConc]_vars

(***************************************************************************)
(* Single calls: one call with arguments of any kind, valid or not         *)
(***************************************************************************)
\* The precisions a caller passes: the accepted ones and one on each side.
ApiPrecisions == -1..(mgrsMaxPrecision + 1)

\* Points for the calls with a zone override: <<latitude, longitude>>.
OverridePoints ==
    {<<FxInt(10), FxInt(6)>>, <<FxInt(10), FxInt(177)>>, <<FxInt(10), FxInt(180)>>,
     <<FxInt(0), FxInt(0)>>, <<Fx(60, 500000000), Fx(3, 500000000)>>,
     <<Fx(78, 300000000), FxInt(9)>>, <<FxInt(10), Fx(5, 999999995)>>,
     <<FxInt(95), FxInt(400)>>}

\* The zone overrides a caller passes to UTM.ConvertFromGeodetic.
CallOverrides == {-1, 0, 1, 2, 29, 30, 31, 32, 33, 34, 59, 60, 61}

\* The zone overrides NewUTM2 accepts that converters are built with.
InstanceOverrides == {0, 1, 30, 32, 60}

\* The arguments of UTM.ConvertFromGeodetic:
\* <<latitude, longitude, call-level override, instance-level override>>.
UTMCalls ==
    {<<g[1], g[2], 0, 0>> : g \in GeodeticSamples}
        \cup {<<g[1], g[2], co, io>> : g \in OverridePoints, co \in CallOverrides,
                                       io \in InstanceOverrides}

\* The arguments of NewUPS: <<semi-major axis, inverse flattening>>.
\* WGS84, Clarke 1866, the two ends of the accepted flattening, arguments
\* outside the accepted ranges, and a flattening that is not a number.
Ellipsoids ==
    {<<FxInt(6378137), Fx(298, 257223563)>>, <<Fx(6378206, 400000000), Fx(294, 978698200)>>,
     <<FxInt(6378137), FxInt(250)>>, <<FxInt(6378137), FxInt(350)>>,
     <<FxInt(0), Fx(298, 257223563)>>, <<FxInt(-1), Fx(298, 257223563)>>,
     <<FxInt(6378137), Fx(249, 999999999)>>, <<FxInt(6378137), Fx(350, 1)>>,
     <<FxInt(6378137), NaN>>}

\* mgrs.go 697-762: the point toUTM finds for the letters and digits of b,
\* whose latitude the band check of lines 766-806 reads.
toUTMGeodetic(m, b) ==
    IF b.zone = 0 THEN None
    ELSE With(getGridValues(m.MGRSEllipsoidCode, b.zone), LAMBDA g :
             IF \/ b.letters[1] = letterX /\ b.zone \in {32, 34, 36}
                \/ b.letters[1] = letterV /\ b.zone = 31 /\ b.letters[2] > letterD
                \/ b.letters[2] < GoByte(g.ltr2LowValue)
                \/ b.letters[2] > GoByte(g.ltr2HighValue)
                \/ b.letters[3] > letterV
             THEN None
             ELSE With(getLatitudeBandMinNorthing(b.letters[1]), LAMBDA band :
                      IF ~IsOk(band) THEN None
                      ELSE UTM_ConvertToGeodetic(
                               m.utm,
                               toUTMCoordinatesOf(g, band.val, b.zone, b.letters,
                                                  b.easting, b.northing))))

\* What MGRS.ConvertToGeodetic computes for a string: the string broken
\* into its parts, the UTM coordinates toUTM returns, the point whose
\* latitude toUTM checks, and the value returned.
decodeResponse(m, s) ==
    With(breakMGRSString(s), LAMBDA b :
        [result |-> MGRS_ConvertToGeodetic(m, s),
         broken |-> b,
         utm |-> MGRS_decodedUTM(m, s),
         point |-> IF IsOk(b) THEN toUTMGeodetic(m, b.val) ELSE None])

InitAPI ==
    /\ mgrs = FreshMGRS
    /\ RoundTripIdle
    /\ DecoderIdle
    /\ GoroutinesIdle
    /\ ApiIdle

\* m.ConvertFromGeodetic(s2.LatLng, precision)
API_MGRSConvertFromGeodetic ==
    \E g \in GeodeticSamples, n \in ApiPrecisions :
        /\ request = NoRequest
        /\ request' = [op |-> "MGRS.ConvertFromGeodetic", latitude |-> g[1],
                       longitude |-> g[2], precision |-> n]
        /\ response' = [result |-> MGRS_ConvertFromGeodetic(mgrs, g[1], g[2], n)]
        /\ mgrs' = MGRS_AfterConvertFromGeodetic(mgrs, g[1], g[2], n)
        /\ UNCHANGED <<roundTripVars, decoderVars, goroutineVars>>

\* m.ConvertFromUTM(utmCoordinates, precision)
API_MGRSConvertFromUTM ==
    \E c \in UTMInputs, n \in ApiPrecisions :
        /\ request = NoRequest
        /\ request' = [op |-> "MGRS.ConvertFromUTM", utmCoordinates |-> c, precision |-> n]
        /\ response' = [result |-> MGRS_ConvertFromUTM(mgrs, c, n),
                        geodetic |-> UTM_ConvertToGeodetic(mgrs.utm, c)]
        /\ mgrs' = MGRS_AfterConvertFromUTM(mgrs, c, n)
        /\ UNCHANGED <<roundTripVars, decoderVars, goroutineVars>>

\* NewUTM2(code, instance override), then u.ConvertFromGeodetic(s2.LatLng,
\* call override)
API_UTMConvertFromGeodetic ==
    \E c \in UTMCalls :
        /\ request = NoRequest
        /\ request' = [op |-> "UTM.ConvertFromGeodetic", latitude |-> c[1], longitude |-> c[2],
                       utmZoneOverride |-> c[3], utmOverride |-> c[4]]
        /\ response' = [result |-> UTM_ConvertFromGeodetic(
                                       NewUTM2(mgrs.MGRSEllipsoidCode, c[4]).val,
                                       c[1], c[2], c[3])]
        /\ UNCHANGED <<mgrs, roundTripVars, decoderVars, goroutineVars>>

\* m.ConvertToGeodetic(string)
API_MGRSConvertToGeodetic ==
    \E s \in ExampleStrings :
        /\ request = NoRequest
        /\ request' = [op |-> "MGRS.ConvertToGeodetic", string |-> s]
        /\ response' = decodeResponse(mgrs, s)
        /\ mgrs' = MGRS_AfterConvertToGeodetic(mgrs, s)
        /\ UNCHANGED <<roundTripVars, decoderVars, goroutineVars>>

\* NewUPS(ellipsoidSemiMajorAxis, ellipsoidFlattening): the response keeps
\* what the two constructors of lines 66 and 69 return for these arguments.
API_NewUPS ==
    \E e \in Ellipsoids :
        /\ request = NoRequest
        /\ request' = [op |-> "NewUPS", ellipsoidSemiMajorAxis |-> e[1],
                       inverseFlattening |-> e[2]]
        /\ response' = [result |-> NewUPSOf(e[1], e[2]),
                        north |-> MakePolarStereographicScaleFactor(
                                      e[1], e[2], 0, Fx(0, 994000000), HemisphereNorth),
                        south |-> MakePolarStereographicScaleFactor(
                                      e[1], e[2], 0, Fx(0, 994000000), HemisphereSouth)]
        /\ UNCHANGED <<mgrs, roundTripVars, decoderVars, goroutineVars>>

\* u.transverseMercatorMap[zone].convertFromGeodetic(s2.LatLng), on the
\* converter NewUTM2 builds for the zone
API_TMConvertFromGeodetic ==
    \E c \in TMCalls :
        /\ request = NoRequest
        /\ request' = [op |-> "TransverseMercator.convertFromGeodetic", zone |-> c[1],
                       latitude |-> c[2], longitude |-> c[3]]
        /\ response' = [result |-> TransverseMercator_convertFromGeodetic(
                                       mgrs.utm.transverseMercatorMap[c[1]], c[2], c[3])]
        /\ UNCHANGED <<mgrs, roundTripVars, decoderVars, goroutineVars>>

\* The ellipsoid codes a caller passes to NewTransverseMercator: codes the
\* switch lists, a code it does not list, and no code.
EllipsoidCodes == {"WE", "CC", "BR", "AA", "EE", "ZZ", ""}

\* NewTransverseMercator(a, f, centralMeridian, 0, 500000, 0, 0.9996, code)
API_NewTransverseMercator ==
    \E code \in EllipsoidCodes, zone \in {1, 30, 31, 60} :
        /\ request = NoRequest
        /\ request' = [op |-> "NewTransverseMercator",
                       centralMeridian |-> centralMeridian(zone), ellipsoidCode |-> code]
        /\ response' = [result |-> NewTransverseMercator(centralMeridian(zone), code)]
        /\ UNCHANGED <<mgrs, roundTripVars, decoderVars, goroutineVars>>

\* m.ups.ConvertFromGeodetic(s2.LatLng): the response keeps what the
\* projection of line 104 returns for the arguments.
API_UPSConvertFromGeodetic ==
    \E g \in GeodeticSamples :
        /\ request = NoRequest
        /\ request' = [op |-> "UPS.ConvertFromGeodetic", latitude |-> g[1], longitude |-> g[2]]
        /\ response' = [result |-> UPS_ConvertFromGeodetic(mgrs.ups, g[1], g[2]),
                        projection |-> PolarStereographic_ConvertFromGeodetic(
                                           upsProjectionFor(mgrs.ups, upsHemisphereOf(g[1])),
                                           g[1], g[2])]
        /\ mgrs' = [mgrs EXCEPT !.ups = UPS_AfterConvertFromGeodetic(mgrs.ups, g[1], g[2])]
        /\ UNCHANGED <<roundTripVars, decoderVars, goroutineVars>>

\* The caller has the returned value and makes its next call on the same
\* converter.
API_Return ==
    /\ request # NoRequest
    /\ request' = NoRequest
    /\ response' = [result |-> None]
    /\ UNCHANGED <<mgrs, roundTripVars, decoderVars, goroutineVars>>

NextAPI ==
    \/ API_MGRSConvertFromGeodetic
    \/ API_MGRSConvertFromUTM
    \/ API_UTMConvertFromGeodetic
    \/ API_MGRSConvertToGeodetic
    \/ API_NewUPS
    \/ API_UPSConvertFromGeodetic
    \/ API_NewTransverseMercator
    \/ API_TMConvertFromGeodetic
    \/ API_Return

SpecAPI == InitAPI /\ [][NextAPI]_vars

(***************************************************************************)
(* The iterative solves, pass by pass                                      *)
(***************************************************************************)
\* Line 797 of transversemercator.go: for n := 0; n < 30; n++.
geodeticLatPasses == 30

InitSolve ==
    /\ mgrs = FreshMGRS
    /\ RoundTripIdle
    /\ DecoderIdle
    /\ GoroutinesIdle
    /\ ApiIdle

\* The entry of ScaleFactorSolveTable for the arguments of the call.
scaleFactorSolveKey(r) ==
    <<r.inverseFlattening[1], r.inverseFlattening[2], r.scaleFactor[1], r.scaleFactor[2]>>

\* MakePolarStereographicScaleFactor(a, f, 0, scaleFactor, hemisphere,
\* 2000000, 2000000), lines 148-215: the call returns the error of the
\* tests of lines 179-196, or reaches the loop with count 30.
Solve_MakePolarStereographicScaleFactor ==
    \E c \in ScaleFactorCalls, h \in {HemisphereNorth, HemisphereSouth} :
        /\ request = NoRequest
        /\ request' = [op |-> "MakePolarStereographicScaleFactor",
                       ellipsoidSemiMajorAxis |-> c[1], inverseFlattening |-> c[2],
                       scaleFactor |-> c[3], hemisphere |-> h]
        /\ response' =
               IF scaleFactorArgumentError(c[1], c[2], 0, c[3], h) = None
               THEN [result |-> None, pc |-> "loop", passes |-> 0, count |-> scaleFactorCount]
               ELSE [result |-> scaleFactorArgumentError(c[1], c[2], 0, c[3], h),
                     pc |-> "done", passes |-> 0, count |-> scaleFactorCount]
        /\ UNCHANGED <<mgrs, roundTripVars, decoderVars, goroutineVars>>

\* Lines 216-225: one pass of the loop.
Solve_ScaleFactorPass ==
    /\ request.op = "MakePolarStereographicScaleFactor"
    /\ response.pc = "loop"
    /\ scaleFactorLoopCondition(ScaleFactorSolveTable[scaleFactorSolveKey(request)][1],
                                response.passes, response.count)
    /\ response' = [response EXCEPT !.passes = @ + 1, !.count = @ - 1]
    /\ UNCHANGED <<mgrs, roundTripVars, decoderVars, goroutineVars, request>>

\* Lines 216 and 227-284: the condition of the loop is false; the
\* constructor returns the error of the solve or the converter.
Solve_ScaleFactorEnd ==
    /\ request.op = "MakePolarStereographicScaleFactor"
    /\ response.pc = "loop"
    /\ ~scaleFactorLoopCondition(ScaleFactorSolveTable[scaleFactorSolveKey(request)][1],
                                 response.passes, response.count)
    /\ response' =
           [response EXCEPT
               !.pc = "done",
               !.result =
                   With(ScaleFactorSolveTable[scaleFactorSolveKey(request)], LAMBDA v :
                       Then(scaleFactorSolve(response.count, Fx(v[2], v[3])), LAMBDA sine :
                           polarStereographicOf(request.ellipsoidSemiMajorAxis,
                                                request.inverseFlattening, 0,
                                                request.scaleFactor, request.hemisphere)))]
    /\ UNCHANGED <<mgrs, roundTripVars, decoderVars, goroutineVars, request>>

\* The entry of PolarLatitudeTable for the arguments of the call.
polarLatitudeKey(r) ==
    <<IF r.south THEN 1 ELSE 0, r.easting[1], r.easting[2], r.northing[1], r.northing[2]>>

\* Line 388 of polarstereographic.go: math.Abs(PHI-tempPHI) > 1.0e-10, when
\* the loop has made the given number of passes; needed is the number of
\* passes after which the two latitudes are within 1.0e-10 of each other.
polarLatitudeLoopCondition(needed, passes) == passes < needed

\* p.ConvertToGeodetic(MapCoords), lines 346-387, for a point that passes
\* the tests of lines 355-375 and is not the pole: the call reaches the loop.
Solve_PolarStereographicConvertToGeodetic ==
    \E k \in DOMAIN PolarLatitudeTable :
        /\ request = NoRequest
        /\ request' = [op |-> "PolarStereographic.ConvertToGeodetic", south |-> k[1] = 1,
                       easting |-> Fx(k[2], k[3]), northing |-> Fx(k[4], k[5])]
        /\ response' = [result |-> None, pc |-> "loop", passes |-> 0]
        /\ UNCHANGED <<mgrs, roundTripVars, decoderVars, goroutineVars>>

\* Lines 388-394: one pass of the loop.
Solve_PolarLatitudePass ==
    /\ request.op = "PolarStereographic.ConvertToGeodetic"
    /\ response.pc = "loop"
    /\ polarLatitudeLoopCondition(PolarLatitudeTable[polarLatitudeKey(request)][1],
                                  response.passes)
    /\ response' = [response EXCEPT !.passes = @ + 1]
    /\ UNCHANGED <<mgrs, roundTripVars, decoderVars, goroutineVars, request>>

\* Lines 388 and 395-428: the condition of the loop is false; the call
\* returns the point.
Solve_PolarLatitudeEnd ==
    /\ request.op = "PolarStereographic.ConvertToGeodetic"
    /\ response.pc = "loop"
    /\ ~polarLatitudeLoopCondition(PolarLatitudeTable[polarLatitudeKey(request)][1],
                                   response.passes)
    /\ response' =
           [response EXCEPT
               !.pc = "done",
               !.result = PolarStereographic_ConvertToGeodetic(
                              upsProjectionFor(mgrs.ups,
                                               IF request.south THEN HemisphereSouth
                                               ELSE HemisphereNorth),
                              request.easting, request.northing)]
    /\ UNCHANGED <<mgrs, roundTripVars, decoderVars, goroutineVars, request>>

\* The entry of GeodeticLatTable for the arguments of the call.
geodeticLatKey(r) ==
    <<r.tranMercOriginLong, r.easting[1], r.easting[2], r.northing[1], r.northing[2]>>

\* Line 803 of transversemercator.go, math.Abs(s-sOld) < 1.0e-12, in the
\* given pass; v is the entry of GeodeticLatTable: the passes the loop makes
\* and 1 when the last of them ends by the break.
geodeticLatBreak(v, pass) == v[2] = 1 /\ pass = v[1]

\* t.convertToGeodetic(MapCoords), lines 680-708 and 740-782, for a point
\* that passes the tests of lines 684-696: the call reaches geodeticLat.
Solve_TMConvertToGeodetic ==
    \E k \in DOMAIN GeodeticLatTable :
        /\ request = NoRequest
        /\ request' = [op |-> "TransverseMercator.convertToGeodetic",
                       tranMercOriginLong |-> k[1],
                       easting |-> Fx(k[2], k[3]), northing |-> Fx(k[4], k[5])]
        /\ response' = [result |-> None, pc |-> "loop", passes |-> 0]
        /\ UNCHANGED <<mgrs, roundTripVars, decoderVars, goroutineVars>>

\* geodeticLat, lines 797-808: the test n < 30 and, when it holds, one pass
\* of the loop, which ends the loop by its break or goes on; when n is 30,
\* or after the break, lines 808 and 710-737 return the point.
Solve_GeodeticLatPass ==
    /\ request.op = "TransverseMercator.convertToGeodetic"
    /\ response.pc = "loop"
    /\ response' =
           IF response.passes < geodeticLatPasses
                  /\ ~geodeticLatBreak(GeodeticLatTable[geodeticLatKey(request)],
                                       response.passes + 1)
           THEN [response EXCEPT !.passes = @ + 1]
           ELSE [response EXCEPT
                    !.pc = "done",
                    !.passes = IF @ < geodeticLatPasses THEN @ + 1 ELSE @,
                    !.result = TransverseMercator_convertToGeodetic(
                                   mgrs.utm.transverseMercatorMap[
                                       (request.tranMercOriginLong + 183) \div 6],
                                   request.easting, request.northing)]
    /\ UNCHANGED <<mgrs, roundTripVars, decoderVars, goroutineVars, request>>

\* The caller has the value returned and makes its next call.
Solve_Return ==
    /\ request # NoRequest
    /\ response.pc = "done"
    /\ request' = NoRequest
    /\ response' = [result |-> None]
    /\ UNCHANGED <<mgrs, roundTripVars, decoderVars, goroutineVars>>

NextSolve ==
    \/ Solve_MakePolarStereographicScaleFactor
    \/ Solve_ScaleFactorPass
    \/ Solve_ScaleFactorEnd
    \/ Solve_PolarStereographicConvertToGeodetic
    \/ Solve_PolarLatitudePass
    \/ Solve_PolarLatitudeEnd
    \/ Solve_TMConvertToGeodetic
    \/ Solve_GeodeticLatPass
    \/ Solve_Return

SpecSolve == InitSolve /\ [][NextSolve]_vars

(***************************************************************************)
(* The letters of the 100 km square, written and read back                 *)
(***************************************************************************)
\* The ellipsoid codes of the two letter patterns: AA (WGS 84) and the
\* other (Clarke 1866).
LetterCodes == {"WE", "CC"}

\* One easting in each of the eight columns of a zone, and eastings with a
\* fraction of a metre: an ordinary one, and two less than 0.0005 m below
\* a multiple of 100000.
LetterEastings ==
    {FxInt(k * 100000 + (k - 1) * 14285) : k \in 1..8}
    \cup {Fx(345678, 500000000), Fx(199999, 999600000), Fx(899999, 999600000)}

\* One northing in each of the twenty rows of the window of a band that
\* starts at minNorthing, and one less than 0.0005 m below the second row.
WindowNorthings(minNorthing) ==
    {FxInt(minNorthing + j * 100000 + ((j * 5261) % 100000)) : j \in 0..19}
    \cup {Fx(minNorthing + 99999, 999600000)}

\* The UTM coordinates written in the band that starts at minNorthing.
LetterCoordinates(minNorthing) == LetterEastings \X WindowNorthings(minNorthing)

\* The eastings and northings of the polar grids: one in each column or
\* row, and one less than 0.0005 m below a multiple of 100000.
PolarOrdinates(hemisphere) ==
    IF hemisphere = HemisphereNorth
    THEN {FxInt(1300000 + j * 100000 + ((j * 7129) % 100000)) : j \in 0..13}
         \cup {Fx(1999999, 999600000)}
    ELSE {FxInt(800000 + j * 100000 + ((j * 4177) % 100000)) : j \in 0..23}
         \cup {Fx(1999999, 999600000)}

InitLetters ==
    /\ mgrs \in {NewMGRS(code).val : code \in LetterCodes}
    /\ RoundTripIdle
    /\ DecoderIdle
    /\ GoroutinesIdle
    /\ ApiIdle

\* fromUTM, lines 410-445, with UTM coordinates of the band of letter: the
\* easting and northing truncated to the precision, and the letters.
Letters_fromUTM ==
    /\ request = NoRequest
    /\ \E zone \in 1..60, i \in 1..Len(latitudeBands) :
           \E c \in LetterCoordinates(latitudeBands[i].minNorthing) :
               /\ request' = [op |-> "MGRS.fromUTM", zone |-> zone,
                              letter |-> latitudeBands[i].letter,
                              latitude |-> latitudeBands[i].south,
                              easting |-> c[1], northing |-> c[2],
                              precision |-> mgrsMaxPrecision]
               /\ response' =
                      [pc |-> "written",
                       easting |-> mgrsTruncate(c[1], computeScale(mgrsMaxPrecision)),
                       northing |-> mgrsTruncate(c[2], computeScale(mgrsMaxPrecision)),
                       letters |-> fromUTMLetters(
                           latitudeBands[i].letter,
                           getGridValues(mgrs.MGRSEllipsoidCode, zone),
                           mgrsTruncate(c[1], computeScale(mgrsMaxPrecision)),
                           mgrsEquatorNorthing(
                               latitudeBands[i].south,
                               mgrsTruncate(c[2], computeScale(mgrsMaxPrecision))))]
    /\ UNCHANGED <<mgrs, roundTripVars, decoderVars, goroutineVars>>

\* toUTM, lines 703-755, with the letters written and digits of 0: the
\* origin of the square.
Letters_toUTM ==
    /\ request.op = "MGRS.fromUTM"
    /\ response.pc = "written"
    /\ response' = [pc |-> "read",
                    easting |-> response.easting,
                    northing |-> response.northing,
                    letters |-> response.letters,
                    square |-> toUTMUnchecked(getGridValues(mgrs.MGRSEllipsoidCode, request.zone),
                                              request.zone, response.letters, 0, 0)]
    /\ UNCHANGED <<mgrs, request, roundTripVars, decoderVars, goroutineVars>>

\* fromUPS, lines 255-315, with the truncated easting and northing.
Letters_fromUPS ==
    /\ request = NoRequest
    /\ \E hemisphere \in {HemisphereNorth, HemisphereSouth}, p \in {0, mgrsMaxPrecision} :
           \E e \in PolarOrdinates(hemisphere), n \in PolarOrdinates(hemisphere) :
               /\ request' = [op |-> "MGRS.fromUPS", hemisphere |-> hemisphere,
                              easting |-> e, northing |-> n, precision |-> p]
               /\ response' =
                      [pc |-> "written",
                       easting |-> mgrsTruncate(e, computeScale(p)),
                       northing |-> mgrsTruncate(n, computeScale(p)),
                       letters |-> With(upsFirstLetter(hemisphere, mgrsTruncate(e, computeScale(p))),
                                        LAMBDA letter :
                                            fromUPSLetters(
                                                letter,
                                                upsConstants[(IF hemisphere = HemisphereNorth
                                                              THEN letter - 22 ELSE letter) + 1],
                                                mgrsTruncate(e, computeScale(p)),
                                                mgrsTruncate(n, computeScale(p))))]
    /\ UNCHANGED <<mgrs, roundTripVars, decoderVars, goroutineVars>>

\* toUPS with the letters written and digits of 0: the origin of the
\* square.
Letters_toUPS ==
    /\ request.op = "MGRS.fromUPS"
    /\ response.pc = "written"
    /\ response' = [pc |-> "read",
                    easting |-> response.easting,
                    northing |-> response.northing,
                    letters |-> response.letters,
                    square |-> MGRS_toUPS(mgrs, response.letters, 0, 0)]
    /\ UNCHANGED <<mgrs, request, roundTripVars, decoderVars, goroutineVars>>

NextLetters ==
    \/ Letters_fromUTM
    \/ Letters_toUTM
    \/ Letters_fromUPS
    \/ Letters_toUPS

SpecLetters == InitLetters /\ [][NextLetters]_vars

(***************************************************************************)
(* Properties                                                              *)
(***************************************************************************)
\* C1: no conversion call writes a field of the converter it runs on, so
\* two calls running concurrently on one converter never write the same
\* memory location: the converter stays as constructed, and no two
\* goroutines stand before the store to UPSOriginLatitude together.
C1_NoWriteToConverter ==
    /\ mgrs = FreshMGRS
    /\ \A g, h \in Goroutines : g # h => ~(pc[g] = "write" /\ pc[h] = "write")

\* C2: the result of every UPS and MGRS call depends only on its arguments:
\* whatever ran before it or runs beside it, a finished call has returned
\* what it returns on a converter fresh from its constructor.
C2_ResultDependsOnArgumentsOnly ==
    \A g \in Goroutines : pc[g] = "done" => ret[g] = CallResult(FreshMGRS, call[g])

\* A northern UPS call has returned its coordinates although another
\* goroutine, inside a southern call, had stored the southern origin
\* latitude before the northern call projected.
C2_Witness ==
    \E g, h \in Goroutines :
        /\ g # h
        /\ pc[g] = "done" /\ IsOk(ret[g])
        /\ call[g].op = "UPS.ConvertFromGeodetic" /\ FxGt(call[g].lat, FxInt(0))
        /\ pc[h] = "project" /\ FxLt(call[h].lat, FxInt(0))
        /\ mgrs.ups.UPSOriginLatitude = FxNeg(upsMaxOriginLat)

\* C3: MGRS.ConvertToGeodetic never aborts, whatever the string: every
\* failure is a returned error.
C3_NeverPanics == decoded.kind # "panic"

IsDigitCodePoint(r) == r \in 48..57

IsLetterCodePoint(r) == r \in 65..90 \/ r \in 97..122

\* C4: MGRS.ConvertToGeodetic returns an error for every string holding a
\* code point that is neither a letter A-Z/a-z nor a digit 0-9, code points
\* above 255 included.
C4_NonAlphanumericIsError ==
    (decoded # None
     /\ \E i \in 1..Len(input) : ~IsDigitCodePoint(input[i]) /\ ~IsLetterCodePoint(input[i]))
    => decoded.kind = "error"

\* The string without its space characters.
StripSpaces(s) == SelectSeq(s, LAMBDA r : r # 32)

\* C5: decoding strips whitespace: a valid MGRS string with spaces inserted
\* breaks into the same zone, letters, easting, northing and precision as
\* the string without the spaces.
C5_SpacesAreStripped ==
    (broken # None
     /\ StripSpaces(input) # input
     /\ IsOk(breakMGRSString(StripSpaces(input))))
    => broken = breakMGRSString(StripSpaces(input))

\* The number the two digits stand for.
TwoDigitValue(s) == (s[1] - 48) * 10 + (s[2] - 48)

\* An optional zone of exactly two digits with value 1..60, exactly three
\* letters without I and O in either case, and an even number, at most 10,
\* of digits.
WellFormed(s) ==
    \E z \in {0, 2}, n \in {0, 2, 4, 6, 8, 10} :
        /\ Len(s) = z + 3 + n
        /\ \A i \in 1..z : IsDigitCodePoint(s[i])
        /\ z = 2 => TwoDigitValue(s) \in 1..60
        /\ \A i \in (z + 1)..(z + 3) :
               IsLetterCodePoint(s[i]) /\ s[i] \notin {73, 79, 105, 111}
        /\ \A i \in (z + 4)..(z + 3 + n) : IsDigitCodePoint(s[i])

\* C6: breakMGRSString accepts a string only if it is an optional two-digit
\* zone in 1..60, three letters without I and O, and an even number, at
\* most 10, of digits.
C6_AcceptsOnlyWellFormed == IsOk(broken) => WellFormed(input)

\* C7: the MGRS round trip never errors: when ConvertFromGeodetic(p, 5)
\* returns a string, ConvertToGeodetic of that string returns no error.
C7_MGRSRoundTripNeverErrors ==
    (precision = 5 /\ IsOk(mgrsString) /\ mgrsGeodetic # None) => IsOk(mgrsGeodetic)

\* C8: the UTM round trip never errors: when UTM.ConvertFromGeodetic(p, 0)
\* returns a coordinate, UTM.ConvertToGeodetic of it returns no error.
C8_UTMRoundTripNeverErrors ==
    (IsOk(utmCoordinates) /\ utmGeodetic # None) => IsOk(utmGeodetic)

\* A round trip has ended for a point above utmMaxLat, inside the margin
\* epsilonRadians.
C8_Witness ==
    /\ IsOk(utmCoordinates)
    /\ IsOk(utmGeodetic)
    /\ FxGt(geodetic[1], utmMaxLat)

\* C9: the UPS round trip never errors: when UPS.ConvertFromGeodetic(p)
\* returns a coordinate, UPS.ConvertToGeodetic of it returns no error.
C9_UPSRoundTripNeverErrors ==
    (IsOk(upsCoordinates) /\ upsGeodetic # None) => IsOk(upsGeodetic)

\* A round trip has ended for a northern point below upsMinNorthLat,
\* inside the margin epsilonRadians.
C9_Witness ==
    /\ IsOk(upsCoordinates)
    /\ IsOk(upsGeodetic)
    /\ FxGe(geodetic[1], FxInt(0))
    /\ FxLt(geodetic[1], upsMinNorthLat)

\* The multiple of d metres nearest to x >= 0.
RoundedToNearest(x, d) ==
    LET w == FxAdd(x, Fx(d \div 2, IF d = 1 THEN 500000000 ELSE 0))[1]
    IN  w - (w % d)

\* The multiple of d metres at or below x + 0.000499 for x >= 0.
TruncatedDown(x, d) ==
    LET w == IF x[2] >= Nano - espilon2[2] THEN x[1] + 1 ELSE x[1]
    IN  w - (w % d)

\* C10 as stated: decoding the string encoded at precision n gives the
\* original easting and northing rounded to the nearest 10^(5-n) metres.
C10_DecodeReproducesRounded ==
    (IsOk(encodedUTM) /\ IsOk(decodedUTM)) =>
        /\ decodedUTM.val.Easting =
               FxInt(RoundedToNearest(encodedUTM.val.Easting, Pow10(5 - precision)))
        /\ decodedUTM.val.Northing =
               FxInt(RoundedToNearest(encodedUTM.val.Northing, Pow10(5 - precision)))

\* C10, amended: when the decoder accepts the string encoded at precision
\* n, it gives the original easting and northing truncated down to a
\* multiple of 10^(5-n) metres (0.000499 m is added first); for a point
\* south of the equator whose northing truncates to 0, it gives the
\* equator of the southern hemisphere, 10000000.
C10_DecodeReproducesTruncated ==
    (IsOk(encodedUTM) /\ IsOk(decodedUTM)) =>
        /\ decodedUTM.val.Easting =
               FxInt(TruncatedDown(encodedUTM.val.Easting, Pow10(5 - precision)))
        /\ \/ decodedUTM.val.Northing =
                  FxInt(TruncatedDown(encodedUTM.val.Northing, Pow10(5 - precision)))
           \/ /\ TruncatedDown(encodedUTM.val.Northing, Pow10(5 - precision)) = 0
              /\ FxLt(geodetic[1], FxInt(0))
              /\ decodedUTM.val.Hemisphere = HemisphereSouth
              /\ decodedUTM.val.Northing = FxInt(10000000)

\* A string encoded at precision 2 has been decoded, and truncating and
\* rounding the original easting to 1000 metres differ.
C10_Witness ==
    /\ IsOk(encodedUTM)
    /\ IsOk(decodedUTM)
    /\ precision = 2
    /\ TruncatedDown(encodedUTM.val.Easting, 1000) # RoundedToNearest(encodedUTM.val.Easting, 1000)
    /\ decodedUTM.val.Easting = FxInt(TruncatedDown(encodedUTM.val.Easting, 1000))

\* The operations that return an MGRS string.
EncoderCalled == request.op \in {"MGRS.ConvertFromGeodetic", "MGRS.ConvertFromUTM"}

\* The string returned together with a nil error.
EncoderReturned == EncoderCalled /\ IsOk(response.result)

\* The three letters of an MGRS string: they follow the two zone digits
\* when the string starts with a digit.
MGRSLetters(s) ==
    IF Len(s) >= 5 /\ IsDigitCodePoint(s[1]) THEN SubSeq(s, 3, 5)
    ELSE IF Len(s) >= 3 THEN SubSeq(s, 1, 3)
    ELSE s

\* C11: no MGRS string returned without error by MGRS.ConvertFromGeodetic
\* or MGRS.ConvertFromUTM has the letter I (73) or O (79) in any of its
\* three letter positions, on the UTM path and on the UPS path.
C11_NoLetterIOrO ==
    EncoderReturned =>
        \A k \in DOMAIN MGRSLetters(response.result.val) :
            MGRSLetters(response.result.val)[k] \notin {73, 79}

\* A UTM-path string whose row letter is J: the letter index of the
\* northing landed on I and was moved past it.
C11_Witness ==
    /\ EncoderReturned
    /\ Len(response.result.val) >= 5
    /\ IsDigitCodePoint(response.result.val[1])
    /\ response.result.val[5] = 74

\* The latitude of the request is outside [-90, 90] degrees.
LatitudeOffTheGlobe ==
    FxLt(request.latitude, FxInt(-90)) \/ FxGt(request.latitude, FxInt(90))

\* C12: MGRS.ConvertFromGeodetic and UTM.ConvertFromGeodetic fail with a
\* latitude-range error for every latitude outside [-90, 90] degrees,
\* whatever the longitude, the precision or the zone override.
C12_LatitudeCheckedFirst ==
    /\ request.op \in {"MGRS.ConvertFromGeodetic", "UTM.ConvertFromGeodetic"}
    /\ LatitudeOffTheGlobe
    => response.result \in {Err("latitude out of range"), Err("latitude out of range ")}

\* UTM.ConvertFromGeodetic called with a latitude and a longitude out of
\* range and an override no zone has, on a converter built with an
\* override.
C12_Witness ==
    /\ request.op = "UTM.ConvertFromGeodetic"
    /\ LatitudeOffTheGlobe
    /\ FxGt(request.longitude, FxInt(360))
    /\ request.utmZoneOverride = 61
    /\ request.utmOverride = 30
    /\ response.result = Err("latitude out of range ")

\* MGRS.ConvertFromGeodetic((0, 0), 5) on the WGS84 converter.
OriginRequest ==
    [op |-> "MGRS.ConvertFromGeodetic", latitude |-> FxInt(0), longitude |-> FxInt(0),
     precision |-> 5]

\* C13: with the default WGS84 converter, MGRS.ConvertFromGeodetic((0, 0),
\* precision 5) returns exactly "31NAA6602100000".
C13_OriginString ==
    request = OriginRequest =>
        response.result = Ok(<<51, 49, 78, 65, 65, 54, 54, 48, 50, 49, 48, 48, 48, 48, 48>>)

\* The call has been made and has returned a string of 15 characters.
C13_Witness ==
    /\ request = OriginRequest
    /\ mgrs.MGRSEllipsoidCode = "WE"
    /\ IsOk(response.result)
    /\ Len(response.result.val) = 15

\* MGRS.ConvertToGeodetic("16SGC3855124838") on the WGS84 converter.
ExampleRequest == [op |-> "MGRS.ConvertToGeodetic", string |-> <<49, 54, 83, 71, 67, 51, 56, 53, 53, 49, 50, 52, 56, 51, 56>>]

\* |a - b| <= tolerance.
Within(a, b, tolerance) == FxLe(FxAbs(FxSub(a, b)), tolerance)

\* C14: with the default WGS84 converter, MGRS.ConvertToGeodetic(
\* "16SGC3855124838") succeeds: the string decodes to UTM zone 16, northern
\* hemisphere, easting 738551 m, northing 3724838 m at precision 5, the
\* latitude found is in band S, and the returned point is (33.6366624,
\* -84.4280571) degrees to the seven decimals given.
C14_ExampleDecodes ==
    request = ExampleRequest =>
        /\ IsOk(response.result)
        /\ response.broken.val.precision = 5
        /\ response.utm = Ok([Zone |-> 16, Hemisphere |-> HemisphereNorth,
                              Easting |-> FxInt(738551), Northing |-> FxInt(3724838)])
        /\ inLatitudeRange(letterS, response.point.val[1], toUTMBorder(5)) = Ok(TRUE)
        /\ response.result = response.point
        /\ Within(response.result.val[1], Fx(33, 636662400), Fx(0, 50))
        /\ Within(response.result.val[2], Fx(-85, 571942900), Fx(0, 50))

\* The call has been made, the string was read as zone 16 and band S, and
\* a point was returned.
C14_Witness ==
    /\ request = ExampleRequest
    /\ mgrs.MGRSEllipsoidCode = "WE"
    /\ response.broken.val.zone = 16
    /\ response.broken.val.letters[1] = letterS
    /\ IsOk(response.result)

\* The 6 degree zone a longitude lies in, 1..60: zone 31 begins at 0
\* degrees and zone 1 at 180 degrees.
NaturalZone(longitude) ==
    LET lon == IF FxLt(longitude, FxInt(0)) THEN FxAdd(longitude, FxInt(360)) ELSE longitude
        z == IF FxLt(lon, FxInt(180)) THEN 31 + (lon[1] \div 6) ELSE (lon[1] \div 6) - 29
    IN  IF z > 60 THEN z - 60 ELSE z

\* The zone and its two neighbours, zones 60 and 1 being neighbours.
ZoneAndNeighbours(z) == {z, IF z = 1 THEN 60 ELSE z - 1, IF z = 60 THEN 1 ELSE z + 1}

\* The override in force: the one of the call, or the one of the converter
\* when the call passes 0.
OverrideInForce ==
    IF request.utmZoneOverride # 0 THEN request.utmZoneOverride ELSE request.utmOverride

\* UTM.ConvertFromGeodetic was called with a latitude and a longitude it
\* accepts.
UTMCalledOnAcceptedPoint ==
    /\ request.op = "UTM.ConvertFromGeodetic"
    /\ response.result \notin {Err("latitude out of range "), Err("longitude out of range")}

\* C15: UTM.ConvertFromGeodetic with a non-zero zone override (the one of
\* the call, or the one of the converter when the call passes 0) accepts
\* the override only if it is the natural zone of the longitude or one of
\* its two neighbours, and then returns the override as the zone; for
\* every other override it returns a zone error.
C15_OverrideNearNaturalZone ==
    UTMCalledOnAcceptedPoint /\ OverrideInForce # 0 =>
        IF OverrideInForce \in ZoneAndNeighbours(NaturalZone(request.longitude))
        THEN IsOk(response.result) /\ response.result.val.Zone = OverrideInForce
        ELSE response.result = Err("zone out of range")

\* C16: UPS surfaces every error of its PolarStereographic dependency.
\* NewUPS returns an error and no converter when the construction of its
\* north or south sub-projection fails, and never a converter with a
\* missing sub-projection; UPS.ConvertFromGeodetic returns an error
\* whenever the sub-projection's ConvertFromGeodetic returns one.
C16_UPSSurfacesProjectionErrors ==
    /\ request.op = "NewUPS" =>
           /\ ~IsOk(response.north) \/ ~IsOk(response.south) => ~IsOk(response.result)
           /\ IsOk(response.result) =>
                  /\ response.result.val.polarStereographicMapN # Nil
                  /\ response.result.val.polarStereographicMapS # Nil
    /\ request.op = "UPS.ConvertFromGeodetic" =>
           (response.projection.kind = "error" => response.result.kind = "error")

\* The latitude by which the encoder chooses its path: the one passed to
\* ConvertFromGeodetic, or the one ConvertFromUTM finds at line 211.
EncoderLatitude ==
    IF request.op = "MGRS.ConvertFromUTM" THEN response.geodetic.val[1] ELSE request.latitude

\* The encoder went through fromUTM (lines 162-163 and 222-223).
TookUTMPath == mgrsNonPolar(EncoderLatitude)

IsUpperCaseLetter(r) == r \in 65..90

\* Two zone digits with a value in 01..60, three letters, 2n digits.
UTMFormed(s, n) ==
    /\ Len(s) = 5 + 2 * n
    /\ IsDigitCodePoint(s[1]) /\ IsDigitCodePoint(s[2])
    /\ (s[1] - 48) * 10 + (s[2] - 48) \in 1..60
    /\ \A k \in 3..5 : IsUpperCaseLetter(s[k])
    /\ \A k \in 6..Len(s) : IsDigitCodePoint(s[k])

\* No zone digits, three letters of which the first is A, B, Y or Z, 2n
\* digits.
UPSFormed(s, n) ==
    /\ Len(s) = 3 + 2 * n
    /\ s[1] \in {65, 66, 89, 90}
    /\ \A k \in 2..3 : IsUpperCaseLetter(s[k])
    /\ \A k \in 4..Len(s) : IsDigitCodePoint(s[k])

\* C17: every string returned with a nil error by MGRS.ConvertFromGeodetic
\* or MGRS.ConvertFromUTM at precision n is non-empty and well formed: on
\* the UTM path two zone digits with a value in 01..60, 3 letters and 2n
\* digits; on the UPS path no zone digits, 3 letters of which the first is
\* A, B, Y or Z, and 2n digits.
C17_ReturnedStringWellFormed ==
    EncoderReturned =>
        /\ request.precision \in 0..mgrsMaxPrecision
        /\ response.result.val # <<>>
        /\ IF TookUTMPath THEN UTMFormed(response.result.val, request.precision)
           ELSE UPSFormed(response.result.val, request.precision)

\* A string of a zone below 10, whose first digit is the padding 0, with
\* easting or northing digits that begin with 0 as well.
C17_Witness ==
    /\ EncoderReturned
    /\ TookUTMPath
    /\ request.precision = mgrsMaxPrecision
    /\ response.result.val[1] = 48
    /\ response.result.val[6] = 48 \/ response.result.val[11] = 48

\* The string has zone digits and a band letter C..X.
UTMShaped(s) ==
    /\ Len(s) >= 5
    /\ IsDigitCodePoint(s[1]) /\ IsDigitCodePoint(s[2])
    /\ s[3] \in (65 + letterC)..(65 + letterX)

\* The string has no zone digits and a first letter A, B, Y or Z.
UPSShaped(s) == Len(s) >= 3 /\ s[1] \in {65, 66, 89, 90}

\* C18: MGRS.ConvertFromGeodetic takes the UTM path (the result has zone
\* digits and a band letter C..X) exactly when the latitude is in
\* [-80, 84) degrees, and the UPS path (no zone digits, first letter A, B,
\* Y or Z) for every other accepted latitude.
C18_UTMPathBetween80SouthAnd84North ==
    request.op = "MGRS.ConvertFromGeodetic" /\ IsOk(response.result) =>
        IF FxGe(request.latitude, FxInt(-80)) /\ FxLt(request.latitude, FxInt(84))
        THEN UTMShaped(response.result.val)
        ELSE UPSShaped(response.result.val)

\* UTM.ConvertFromGeodetic returned a coordinate, with no override at the
\* call and none in the converter.
UTMReturnedWithoutOverride ==
    /\ request.op = "UTM.ConvertFromGeodetic"
    /\ request.utmZoneOverride = 0 /\ request.utmOverride = 0
    /\ IsOk(response.result)

\* a <= x < b, in whole degrees a and b.
InWindow(x, a, b) == FxGe(x, FxInt(a)) /\ FxLt(x, FxInt(b))

\* The zone the windows over Svalbard and southern Norway give, 0 outside
\* them.
WindowZone(latitude, longitude) ==
    IF FxGe(latitude, FxInt(72)) /\ InWindow(longitude, 0, 9) THEN 31
    ELSE IF FxGe(latitude, FxInt(72)) /\ InWindow(longitude, 9, 21) THEN 33
    ELSE IF FxGe(latitude, FxInt(72)) /\ InWindow(longitude, 21, 33) THEN 35
    ELSE IF FxGe(latitude, FxInt(72)) /\ InWindow(longitude, 33, 42) THEN 37
    ELSE IF InWindow(latitude, 56, 64) /\ InWindow(longitude, 3, 12) THEN 32
    ELSE 0

\* 1.0e-10 rad is 5.73e-9 degree: on longitudes that are multiples of
\* 1e-9 degree, advancing by it crosses the same whole degrees as
\* advancing by 5e-9 degree.
ZonePad == Fx(0, 5)

\* C19 as stated: with no zone override, UTM.ConvertFromGeodetic never
\* selects zone 32, 34 or 36 for a latitude of 72 degrees or more: it
\* selects 31 for longitudes in [0, 9), 33 in [9, 21), 35 in [21, 33) and
\* 37 in [33, 42); it selects 32 for latitudes in [56, 64) with longitude
\* in [3, 12); outside these windows it selects the natural 6 degree zone
\* of the longitude.
C19_ZoneWindowsElseNaturalZone ==
    UTMReturnedWithoutOverride =>
        /\ FxGe(request.latitude, FxInt(72)) => response.result.val.Zone \notin {32, 34, 36}
        /\ response.result.val.Zone =
               IF WindowZone(request.latitude, request.longitude) # 0
               THEN WindowZone(request.latitude, request.longitude)
               ELSE NaturalZone(request.longitude)

\* C19: with no zone override, UTM.ConvertFromGeodetic never selects zone
\* 32, 34 or 36 for a latitude of 72 degrees or more: it selects 31 for
\* longitudes in [0, 9), 33 in [9, 21), 35 in [21, 33) and 37 in [33, 42);
\* it selects 32 for latitudes in [56, 64) with longitude in [3, 12);
\* outside these windows it selects the natural 6 degree zone of the
\* longitude advanced by 1.0e-10 rad.
C19_ZoneWindowsElsePaddedZone ==
    UTMReturnedWithoutOverride =>
        /\ FxGe(request.latitude, FxInt(72)) => response.result.val.Zone \notin {32, 34, 36}
        /\ response.result.val.Zone =
               IF WindowZone(request.latitude, request.longitude) # 0
               THEN WindowZone(request.latitude, request.longitude)
               ELSE NaturalZone(
                        FxAdd(IF FxLt(request.longitude, FxInt(0))
                              THEN FxAdd(request.longitude, FxInt(360))
                              ELSE request.longitude,
                              ZonePad))

\* A point over Svalbard whose natural zone is 32 has come back in zone 33.
C19_Witness ==
    /\ UTMReturnedWithoutOverride
    /\ FxGe(request.latitude, FxInt(72))
    /\ NaturalZone(request.longitude) = 32
    /\ response.result.val.Zone = 33

\* MGRS.ConvertToGeodetic read a string with a zone, and toUTM found the
\* point of its letters and digits.
DecoderReachedBandCheck ==
    /\ request.op = "MGRS.ConvertToGeodetic"
    /\ IsOk(response.broken)
    /\ IsOk(response.point)

\* The decoded latitude is in the given band, widened by the border of the
\* string's precision.
DecodedInBand(letter) ==
    inLatitudeRange(letter, response.point.val[1],
                    toUTMBorder(response.broken.val.precision)) = Ok(TRUE)

\* The band claimed by the string: its first letter.
ClaimedBand == response.broken.val.letters[1]

\* C20: decoding a UTM-path MGRS string fails the latitude-band check only
\* when the decoded latitude lies in neither the claimed band nor either
\* of its two adjacent bands, each widened by the border of the precision;
\* a decoded point that lies in one adjacent band is accepted.
C20_AdjacentBandAccepted ==
    DecoderReachedBandCheck =>
        (\/ DecodedInBand(ClaimedBand)
         \/ DecodedInBand(toUTMPrevBand(ClaimedBand))
         \/ DecodedInBand(toUTMNextBand(ClaimedBand))
         => IsOk(response.result))

\* The case of the coefficient switch that lists the code, if any.
ListedCase(code) == {c \in CoefficientCases : code \in c}

\* C21: a converter NewTransverseMercator builds for an ellipsoid code that
\* the coefficient table lists has the coefficients of the table entry of
\* that code, and a converter built for a code the table does not list has
\* the coefficients computed from the flattening.
C21_ListedCodeTakesTableEntry ==
    (request.op = "NewTransverseMercator" /\ IsOk(response.result)) =>
        IF ListedCase(request.ellipsoidCode) # {}
        THEN /\ response.result.val.tranMercCoeff.from = "table"
             /\ {response.result.val.tranMercCoeff.case} = ListedCase(request.ellipsoidCode)
        ELSE response.result.val.tranMercCoeff.from = "series"

\* x brought into (-180, 180] by whole turns, for x in (-540, 540].
NormalisedDegrees(x) ==
    IF FxGt(x, FxInt(180)) THEN FxSub(x, FxInt(360))
    ELSE IF FxLe(x, FxInt(-180)) THEN FxAdd(x, FxInt(360))
    ELSE x

TMForwardCalled == request.op = "TransverseMercator.convertFromGeodetic"

\* How far the longitude of the call is from the central meridian of the
\* converter, in degrees: between 0 and 180.
DegreesFromCentralMeridian ==
    FxAbs(NormalisedDegrees(FxSub(NormalisedDegrees(request.longitude),
                                  FxInt(centralMeridian(request.zone)))))

TMRangeError == response.result = Err("longitude out of range")

\* C22 as stated: convertFromGeodetic returns the range error for every
\* point more than 70 degrees from the central meridian, at every latitude,
\* and for no point within 70 degrees.
C22_RangeErrorBeyond70Degrees ==
    TMForwardCalled => (TMRangeError <=> FxGt(DegreesFromCentralMeridian, FxInt(70)))

\* C22, amended: convertFromGeodetic returns the range error exactly for the
\* points more than 70 and less than 110 degrees from the central meridian
\* whose latitude is less than 20 degrees from the equator; every other
\* point gets no error.
C22_RangeErrorBeyond70DegreesNearEquator ==
    TMForwardCalled =>
        /\ TMRangeError <=>
               /\ FxGt(DegreesFromCentralMeridian, FxInt(70))
               /\ FxLt(DegreesFromCentralMeridian, FxInt(110))
               /\ FxLt(FxAbs(request.latitude), FxInt(20))
        /\ ~TMRangeError => IsOk(response.result)

\* A point 90 degrees from the central meridian is rejected at 10 degrees
\* north and accepted at 45 degrees north.
C22_Witness ==
    /\ TMForwardCalled
    /\ DegreesFromCentralMeridian = FxInt(90)
    /\ \/ request.latitude = FxInt(10) /\ TMRangeError
       \/ request.latitude = FxInt(45) /\ IsOk(response.result)

\* A call of the scale-factor constructor has returned, and its arguments
\* passed the tests made before the solve.
ScaleFactorSolveDone ==
    /\ request.op = "MakePolarStereographicScaleFactor"
    /\ response.pc = "done"
    /\ scaleFactorArgumentError(request.ellipsoidSemiMajorAxis, request.inverseFlattening, 0,
                                request.scaleFactor, request.hemisphere) = None

\* What the arithmetic of the solve gives for the arguments of the call:
\* <<passes to the tolerance or -1, the sine the loop ends with>>.
SolveEntry == ScaleFactorSolveTable[scaleFactorSolveKey(request)]

\* The iteration reached the tolerance, on the pass the loop ended with.
ReachedTolerance == SolveEntry[1] >= 0 /\ response.passes = SolveEntry[1]

\* The sine solved for is a number in [-1, 1].
SolvedSineInRange ==
    /\ ~IsNaN(Fx(SolveEntry[2], SolveEntry[3]))
    /\ FxGe(Fx(SolveEntry[2], SolveEntry[3]), FxInt(-1))
    /\ FxLe(Fx(SolveEntry[2], SolveEntry[3]), FxInt(1))

ConvergenceError == response.result = Err("origin latitude error")

SolveCalled ==
    request.op \in {"MakePolarStereographicScaleFactor", "PolarStereographic.ConvertToGeodetic",
                    "TransverseMercator.convertToGeodetic"}

\* The scale-factor solve made its 30 passes without reaching the tolerance.
ScaleFactorSolveOutOfPasses ==
    ScaleFactorSolveDone /\ response.passes = 30 /\ ~ReachedTolerance

\* One of the two latitude solves has returned.
LatitudeSolveDone ==
    /\ request.op \in {"PolarStereographic.ConvertToGeodetic",
                        "TransverseMercator.convertToGeodetic"}
    /\ response.pc = "done"

Suppressed(s) ==
    /\ UTMShaped(s)
    /\ \/ s[3] = 88 /\ TwoDigitValue(s) \in {32, 34, 36}
       \/ s[3] = 86 /\ TwoDigitValue(s) = 31 /\ s[4] > 68

\* MGRS.ConvertFromUTM returned a string of the given band for coordinates
\* of the given zone.
EncodedFromZone(zone, band) ==
    /\ request.op = "MGRS.ConvertFromUTM"
    /\ IsOk(response.result)
    /\ UTMShaped(response.result.val)
    /\ response.result.val[3] = band
    /\ request.utmCoordinates.Zone = zone

\* C25: no string the encoder returns has a zone and letters the decoder
\* rejects as suppressed; a point of band V in zone 31 with an easting of
\* 500000 or more is encoded in zone 32, and a point of band X in zone 32,
\* 34 or 36 is encoded in the odd zone on the side of 500000 its easting
\* lies on.
C25_NeverEmitsSuppressedSquare ==
    /\ EncoderReturned => ~Suppressed(response.result.val)
    /\ (EncodedFromZone(31, 86) /\ FxGe(request.utmCoordinates.Easting, FxInt(500000))) =>
           TwoDigitValue(response.result.val) = 32
    /\ \A zone \in {32, 34, 36} :
           EncodedFromZone(zone, 88) =>
               TwoDigitValue(response.result.val) =
                   IF FxLt(request.utmCoordinates.Easting, FxInt(500000)) THEN zone - 1
                   ELSE zone + 1

\* C26: for every point and every call-level zone override, negative and
\* above 60 included, UTM.ConvertFromGeodetic returns an error or
\* coordinates of a zone in 1..60: it never reads transverseMercatorMap at
\* an index outside 1..60.
C26_ErrorOrZoneInTable ==
    request.op = "UTM.ConvertFromGeodetic" =>
        \/ response.result.kind = "error"
        \/ IsOk(response.result) /\ response.result.val.Zone \in 1..60

\* The request is MGRS.ConvertFromGeodetic with a latitude in [-90, 90]
\* degrees, a longitude in [-180, 360] degrees and a precision in 0..5.
EncodeRequestInRange ==
    /\ request.op = "MGRS.ConvertFromGeodetic"
    /\ ~LatitudeOffTheGlobe
    /\ FxGe(request.longitude, FxInt(-180))
    /\ FxLe(request.longitude, FxInt(360))
    /\ request.precision \in 0..mgrsMaxPrecision

\* The messages of the latitude checks of MGRS, UPS and UTM.
LatitudeRangeErrors ==
    {Err("latitude out of range"), Err("latitude out of range ")}

\* C27: for every latitude in [-90, 90] degrees, longitude in [-180, 360]
\* degrees and precision in 0..5, MGRS.ConvertFromGeodetic does not fail
\* with a latitude-range error: the latitudes sent to UTM are latitudes UTM
\* accepts and the latitudes sent to UPS are latitudes UPS accepts.
C27_NoLatitudeGap ==
    EncodeRequestInRange => response.result \notin LatitudeRangeErrors

\* A latitude just above 84 degrees plus the tolerance, the first that
\* goes to UPS, encoded to a string of the northern polar cap.
C27_Witness ==
    /\ EncodeRequestInRange
    /\ FxGt(request.latitude, FxInt(84))
    /\ FxLt(request.latitude, utmMaxLat)
    /\ ~mgrsNonPolar(request.latitude)
    /\ response.result.kind = "ok"
    /\ response.result.val[1] \in {89, 90}

\* The bytes the three scans of breakMGRSString pass over: the leading
\* digits, the letters after them and the digits after those.
ScannedBytes(s) ==
    LET t == Utf8String(s)
        zoneDigits == CountWhile(t, 1, TRUE)
        numLetters == CountWhile(t, zoneDigits + 1, FALSE)
        numDigits == CountWhile(t, zoneDigits + numLetters + 1, TRUE)
    IN  zoneDigits + numLetters + numDigits

\* Something is left in the buffer after the easting/northing digits.
LeftAfterDigits(s) == ScannedBytes(s) < Len(Utf8String(s))

\* C28: breakMGRSString consumes its whole input: an input with anything
\* left after the easting/northing digit field returns an error.
C28_ConsumesWholeInput ==
    (broken # None /\ LeftAfterDigits(input)) => ~IsOk(broken)

\* The number of zone digits the string starts with.
ZoneDigits(s) == CountWhile(Utf8String(s), 1, TRUE)

\* A letter follows the zone digits.
HasFirstLetter(s) ==
    /\ ZoneDigits(s) < Len(Utf8String(s))
    /\ isalpha(Utf8String(s)[ZoneDigits(s) + 1])

\* The first letter, as the decoder numbers it: A is 0.
FirstLetter(s) == toupper(Utf8String(s)[ZoneDigits(s) + 1]) - 65

\* The first letter does not match the presence of zone digits: with zone
\* digits it is not a band letter C..X, without them it is not A, B, Y, Z.
FirstLetterMismatch(s) ==
    /\ HasFirstLetter(s)
    /\ IF ZoneDigits(s) > 0
       THEN FirstLetter(s) \notin letterC..letterX
       ELSE FirstLetter(s) \notin {letterA, letterB, letterY, letterZ}

\* C29: MGRS.ConvertToGeodetic returns an error and no coordinate for every
\* string whose first letter does not match the presence of zone digits:
\* with zone digits only the band letters C..X are accepted, without them
\* only A, B, Y and Z.
C29_FirstLetterMatchesZone ==
    (decoded # None /\ FirstLetterMismatch(input)) => decoded.kind = "error"

\* A string with zone digits, a polar first letter and a second and third
\* letter that zone has: the band lookup of toUTM refuses it.
C29_Witness ==
    /\ FirstLetterMismatch(input)
    /\ ZoneDigits(input) > 0
    /\ FirstLetter(input) \in {letterY, letterZ}
    /\ decoded = Err("invalid MGRS")

\* x without what is above its last multiple of 100000.
FloorTo100000(x) == (x \div 100000) * 100000

\* The letters written by fromUTM have been read back by toUTM.
UTMLettersRead == request.op = "MGRS.fromUTM" /\ response.pc = "read"

\* The letters written by fromUPS have been read back by toUPS.
UPSLettersRead == request.op = "MGRS.fromUPS" /\ response.pc = "read"

\* The origin read back is the square of the easting and the northing.
SquareIsOf(easting, northing) ==
    /\ IsOk(response.square)
    /\ response.square.val.Easting = FxInt(FloorTo100000(easting))
    /\ response.square.val.Northing = FxInt(FloorTo100000(northing))

TruncatedInRange ==
    IF request.op = "MGRS.fromUTM"
    THEN /\ response.easting >= 100000 /\ response.easting < 900000
         /\ response.northing >= getLatitudeBandMinNorthing(request.letter).val.minNorthing
         /\ response.northing < getLatitudeBandMinNorthing(request.letter).val.minNorthing + 2000000
    ELSE \A x \in {response.easting, response.northing} :
             IF request.hemisphere = HemisphereNorth
             THEN x >= 1300000 /\ x < 2700000
             ELSE x >= 800000 /\ x < 3200000

====
